---------------------------- MODULE Spec2Model ----------------------------
(***************************************************************************)
(* QuickPYQquizOCR: the MCQ text-normalisation pipeline of the bot.        *)
(*                                                                         *)
(* Text is a sequence of characters; a character is a string.  The answer  *)
(* mark U+2705 is the character TICK, U+2713 is CHECK.  Every function of  *)
(* the source that works on str is an operator on such sequences and is    *)
(* computed the way the Python code computes it (split, strip, slices,     *)
(* regular-expression matches).                                            *)
(***************************************************************************)
EXTENDS Integers, Sequences, FiniteSets, TLC

VARIABLES
    pc,           \* position of the running handler or function
    cmd,          \* which handler / function is running
    raw,          \* text handed to the handler (LLM reply, uploaded text, helper argument)
    amount,       \* /ai: requested number of MCQs
    bilingual_flag, \* /ai: bilingual_flag of detect_mode
    max_len_arg,      \* normalize_option_line: argument max_len
    n,            \* balanced_shuffled_letters: argument n
    counts,       \* balanced_shuffled_letters: counts per letter still to be placed
    pool,         \* balanced_shuffled_letters: the pool built so far
    blocks,       \* blocks returned by the splitter
    mcq_structs,  \* /ai: structs accepted by the parser
    parsed_qs,       \* bot.py: questions returned by parse_mcq_text
    converted_blocks, \* /bi: texts of the blocks processed so far
    final_text,   \* text written to the output file
    out_parts,    \* /bi: texts of the part files sent
    once,         \* pass applied once
    twice,        \* pass applied twice
    tr_log,       \* /bi: what the translation calls of each processed block returned
    outbox,       \* what the handler answering the last command has handed to
                  \* Telegram for the user, in order
    uploads,      \* bot.py: context.user_data["uploads"] of the session
    queue,        \* bot.py: state["queue"] as saved in the state file
    disk,         \* bot.py: uploaded input files present on disk
    item_idx,     \* bot.py: position of the loop of doneocr_handler in the queue
    sent_items,   \* bot.py: positions of the queue items whose MCQ document
                  \* safe_send_document has delivered
    saved,        \* bot.py: the files in SAVED_DIR/<uid>
    saved_dir,    \* bot.py: SAVED_DIR/<uid> exists
    awaiting_cleanup_confirm, \* bot.py: context.user_data["awaiting_cleanup_confirm"]
    asked,        \* /cleanup has asked for the confirmation and no text message
                  \* has arrived since
    last_text,    \* bot.py: the text of the last text message received
    awaiting_images,  \* bot+OCR.py: context.user_data["awaiting_images"]
    collected_images, \* bot+OCR.py: context.user_data["collected_images"]
    image_files,  \* bot+OCR.py: downloaded image files present on disk
    img_run,      \* the last run of process_multiple_images: the images it was
                  \* called with and the images it put into a payload for the LLM
    g_model,      \* call_gemini_default: position of the model loop in GEMINI_MODELS
    g_attempt,    \* call_gemini_default: attempt of the inner loop
    g_log,        \* the requests call_gemini_default has made: model and response
    g_result      \* what call_gemini_default has returned

vars == <<pc, cmd, raw, amount, bilingual_flag, max_len_arg, n, counts, pool, blocks,
          mcq_structs, parsed_qs, converted_blocks, final_text, out_parts, once, twice,
          tr_log, outbox, uploads, queue, disk, item_idx, sent_items,
          saved, saved_dir, awaiting_cleanup_confirm, asked, last_text,
          awaiting_images, collected_images, image_files, img_run,
          g_model, g_attempt, g_log, g_result>>

-----------------------------------------------------------------------------
(* Characters *)

TICK == "TICK"
CHECK == "CHECK"
NL == "\n"
SP == " "
WS == {" ", "\n", "\t"}
Digits == {"0", "1", "2", "3", "4", "5", "6", "7", "8", "9"}
Upper == {"A", "B", "C", "D"}
Lower == {"a", "b", "c", "d"}
SentenceEnd == {".", "!", "?"}

\* str.lower() on the letters A-Z
ToLower(c) ==
    CASE c = "A" -> "a" [] c = "B" -> "b" [] c = "C" -> "c" [] c = "D" -> "d"
      [] c = "E" -> "e" [] c = "F" -> "f" [] c = "G" -> "g" [] c = "H" -> "h"
      [] c = "I" -> "i" [] c = "J" -> "j" [] c = "K" -> "k" [] c = "L" -> "l"
      [] c = "M" -> "m" [] c = "N" -> "n" [] c = "O" -> "o" [] c = "P" -> "p"
      [] c = "Q" -> "q" [] c = "R" -> "r" [] c = "S" -> "s" [] c = "T" -> "t"
      [] c = "U" -> "u" [] c = "V" -> "v" [] c = "W" -> "w" [] c = "X" -> "x"
      [] c = "Y" -> "y" [] c = "Z" -> "z"
      [] OTHER -> c

Lowered(s) == [i \in 1..Len(s) |-> ToLower(s[i])]

Rep(c, k) == [i \in 1..k |-> c]

Digit(k) == CASE k = 0 -> "0" [] k = 1 -> "1" [] k = 2 -> "2" [] k = 3 -> "3"
              [] k = 4 -> "4" [] k = 5 -> "5" [] k = 6 -> "6" [] k = 7 -> "7"
              [] k = 8 -> "8" [] k = 9 -> "9"

\* decimal numeral of k, 0 <= k <= 99
Numeral(k) == IF k < 10 THEN <<Digit(k)>> ELSE <<Digit(k \div 10), Digit(k % 10)>>

-----------------------------------------------------------------------------
(* Python str operations *)

Min(S) == CHOOSE x \in S : \A y \in S : x <= y
Max(S) == CHOOSE x \in S : \A y \in S : x >= y

\* s[:k]; a negative k counts from the end
Take(s, k) ==
    IF k < 0 THEN SubSeq(s, 1, Len(s) + k)
    ELSE SubSeq(s, 1, IF k < Len(s) THEN k ELSE Len(s))
\* s[k:]
Drop(s, k) == SubSeq(s, k + 1, Len(s))

RECURSIVE FirstNonWS(_, _)
FirstNonWS(s, i) ==
    IF i > Len(s) THEN Len(s) + 1
    ELSE IF s[i] \notin WS THEN i ELSE FirstNonWS(s, i + 1)

RECURSIVE LastNonWS(_, _)
LastNonWS(s, i) ==
    IF i < 1 THEN 0
    ELSE IF s[i] \notin WS THEN i ELSE LastNonWS(s, i - 1)

\* s.strip(), s.rstrip(), s.lstrip()
Strip(s) == SubSeq(s, FirstNonWS(s, 1), LastNonWS(s, Len(s)))
RStrip(s) == SubSeq(s, 1, LastNonWS(s, Len(s)))
LStrip(s) == SubSeq(s, FirstNonWS(s, 1), Len(s))

StartsWith(s, p) == Len(s) >= Len(p) /\ SubSeq(s, 1, Len(p)) = p
EndsWithAny(s, cs) == Len(s) >= 1 /\ s[Len(s)] \in cs
Contains(s, c) == \E i \in 1..Len(s) : s[i] = c

\* the positions of the characters of s that are in cs, in increasing order
Positions(s, cs) == SelectSeq([i \in 1..Len(s) |-> i], LAMBDA i : s[i] \in cs)

\* the pieces of s between the one-character separators at positions seps
SplitAt(s, seps) ==
    [k \in 1..(Len(seps) + 1) |->
        SubSeq(s, IF k = 1 THEN 1 ELSE seps[k - 1] + 1,
                  IF k = Len(seps) + 1 THEN Len(s) ELSE seps[k] - 1)]

\* s.split(c) and re.split('[cs]', s): every separator splits, empty pieces kept
SplitOn(s, cs) == SplitAt(s, Positions(s, cs))
\* text.split('\n')
Lines(text) == SplitOn(text, {NL})
\* s.split(): pieces between runs of whitespace, empty pieces dropped
Words(s) == SelectSeq(SplitOn(s, WS), LAMBDA w : w # <<>>)

RECURSIVE Join(_, _)
\* sep.join(parts)
Join(parts, sep) ==
    IF parts = <<>> THEN <<>>
    ELSE IF Len(parts) = 1 THEN parts[1]
    ELSE LET half == Len(parts) \div 2 IN
         Join(SubSeq(parts, 1, half), sep) \o sep
            \o Join(SubSeq(parts, half + 1, Len(parts)), sep)

\* re.sub of a set of single characters by ''
RemoveChars(s, cs) == SelectSeq(s, LAMBDA c : c \notin cs)

RECURSIVE DigitRun(_, _)
\* number of leading digits of s from position i
DigitRun(s, i) ==
    IF i <= Len(s) /\ s[i] \in Digits THEN 1 + DigitRun(s, i + 1) ELSE 0

\* re.match(r'^\d+\.', s)
MatchQNum(s) ==
    LET d == DigitRun(s, 1) IN d >= 1 /\ Len(s) >= d + 1 /\ s[d + 1] = "."
\* re.match(r'^\d+\.\s', s)
MatchQNumSp(s) ==
    LET d == DigitRun(s, 1) IN
    d >= 1 /\ Len(s) >= d + 2 /\ s[d + 1] = "." /\ s[d + 2] \in WS
\* re.match(r'^[a-d]\)', s)
MatchLowerOpt(s) == Len(s) >= 2 /\ s[1] \in Lower /\ s[2] = ")"
\* re.match(r'^\([A-D]\)', s)
MatchUpperOpt(s) == Len(s) >= 3 /\ s[1] = "(" /\ s[2] \in Upper /\ s[3] = ")"

-----------------------------------------------------------------------------
(* helpers.py: optimize_for_poll *)

OFP_QUESTION_LIMIT == 4000
OFP_EX_LIMIT == 200
OFP_EX_SPACE_MIN == 150
OFP_OPTION_LIMIT == 100

RECURSIVE GreedyWords(_, _, _)
\* the loop "for word in words: if current_length + len(word) + 1 <= limit:
\* append, current_length += len(word) + 1; else: break"
GreedyWords(words, current_length, limit) ==
    IF words = <<>> THEN <<>>
    ELSE IF current_length + Len(words[1]) + 1 <= limit
         THEN <<words[1]>> \o
              GreedyWords(Tail(words), current_length + Len(words[1]) + 1, limit)
         ELSE <<>>

OFP_Question(line) ==
    IF Len(line) > OFP_QUESTION_LIMIT
    THEN LET sentences == SplitOn(line, SentenceEnd) IN
         IF Len(sentences) > 1
         THEN LET first_sentence == Strip(sentences[1]) IN
              IF first_sentence # <<>> /\ Len(first_sentence) <= OFP_QUESTION_LIMIT
              THEN first_sentence \o <<".">>
              ELSE LET shortened == GreedyWords(Words(line), 0, OFP_QUESTION_LIMIT) IN
                   IF shortened # <<>> THEN Join(shortened, <<SP>>)
                   ELSE Take(line, OFP_QUESTION_LIMIT)
         ELSE Take(line, OFP_QUESTION_LIMIT)
    ELSE line

RECURSIVE OFP_ImportantParts(_, _)
\* the loop over sentences of an explanation: whole sentences while they
\* fit, then whole words of the first sentence that does not, then break
OFP_ImportantParts(sentences, current_length) ==
    IF sentences = <<>> THEN <<>>
    ELSE LET sentence == Strip(sentences[1]) IN
         IF sentence = <<>>
         THEN OFP_ImportantParts(Tail(sentences), current_length)
         ELSE LET sentence_with_dot ==
                      IF ~EndsWithAny(sentence, {"."}) THEN sentence \o <<".">>
                      ELSE sentence
              IN IF current_length + Len(sentence_with_dot) <= OFP_EX_LIMIT
                 THEN <<sentence>> \o
                      OFP_ImportantParts(Tail(sentences),
                                         current_length + Len(sentence_with_dot))
                 ELSE LET partial_sentence ==
                              GreedyWords(Words(sentence), current_length, OFP_EX_LIMIT)
                      IN IF partial_sentence # <<>>
                         THEN <<Join(partial_sentence, <<SP>>)>>
                         ELSE <<>>

ExPrefix == <<"E", "x", ":">>

OFP_Explanation(line) ==
    LET explanation == Strip(Drop(line, 3)) IN
    IF Len(explanation) > OFP_EX_LIMIT
    THEN LET important_parts ==
                 OFP_ImportantParts(SplitOn(explanation, SentenceEnd), 0)
         IN IF important_parts # <<>>
            THEN LET joined == Join(important_parts, <<".", SP>>)
                     optimized_explanation ==
                         IF joined # <<>> /\ ~EndsWithAny(joined, SentenceEnd)
                         THEN joined \o <<".">> ELSE joined
                 IN ExPrefix \o <<SP>> \o optimized_explanation
            ELSE LET cut == Take(explanation, OFP_EX_LIMIT)
                     spaces == Positions(cut, {SP})
                     \* str.rfind(' '): 0-based index of the last space, -1 if none
                     last_space == IF spaces = <<>> THEN -1
                                   ELSE spaces[Len(spaces)] - 1
                 IN IF last_space > OFP_EX_SPACE_MIN
                    THEN ExPrefix \o <<SP>> \o Take(explanation, last_space)
                    ELSE ExPrefix \o <<SP>> \o cut
    ELSE line

OFP_Option(line) ==
    LET option_text == Strip(Drop(line, 3)) IN
    IF Len(option_text) > OFP_OPTION_LIMIT
    THEN LET shortened == GreedyWords(Words(option_text), 0, OFP_OPTION_LIMIT) IN
         IF shortened # <<>> THEN Take(line, 3) \o Join(shortened, <<SP>>)
         ELSE Take(line, 3) \o Take(option_text, OFP_OPTION_LIMIT)
    ELSE line

OFP_Line(line) ==
    IF Strip(line) = <<>> THEN line
    ELSE IF MatchQNum(line) THEN OFP_Question(line)
    ELSE IF StartsWith(line, ExPrefix) THEN OFP_Explanation(line)
    ELSE IF MatchLowerOpt(line) THEN OFP_Option(line)
    ELSE line

optimize_for_poll(text) ==
    LET lines == Lines(text) IN
    Join([i \in 1..Len(lines) |-> OFP_Line(lines[i])], <<NL>>)

-----------------------------------------------------------------------------
(* helpers.py: enforce_telegram_limits *)

ETL_QUESTION_LIMIT == 4096
ETL_OPTION_LIMIT == 100
ETL_OPTION_TEXT_LIMIT == 97
ETL_EX_LIMIT == 200

Ellipsis == <<".", ".", ".">>

ETL_Line(raw_line) ==
    LET line == Strip(raw_line) IN
    IF line = <<>> THEN line
    ELSE IF MatchQNum(line)
    THEN IF Len(line) > ETL_QUESTION_LIMIT THEN Take(line, ETL_QUESTION_LIMIT)
         ELSE line
    ELSE IF MatchLowerOpt(line)
    THEN IF Len(line) > ETL_OPTION_LIMIT
         THEN LET option_marker == Take(line, 3)
                  stripped == Strip(Drop(line, 3))
                  option_text ==
                      IF Len(stripped) > ETL_OPTION_TEXT_LIMIT
                      THEN Take(stripped, ETL_OPTION_TEXT_LIMIT) \o Ellipsis
                      ELSE stripped
              IN option_marker \o option_text
         ELSE line
    ELSE IF StartsWith(line, ExPrefix)
    THEN LET explanation == Strip(Drop(line, 3)) IN
         IF Len(explanation) > ETL_EX_LIMIT
         THEN LET cut == Take(explanation, ETL_EX_LIMIT)
                  closed == IF ~EndsWithAny(cut, SentenceEnd)
                            THEN RStrip(cut) \o <<".">> ELSE cut
              IN ExPrefix \o <<SP>> \o closed
         ELSE line
    ELSE line

enforce_telegram_limits(text) ==
    LET lines == Lines(text) IN
    Join([i \in 1..Len(lines) |-> ETL_Line(lines[i])], <<NL>>)

-----------------------------------------------------------------------------
(* helpers.py: answer-mark passes *)

\* the character class of enforce_correct_answer_format's re.sub
EcafGlyphs == {TICK, CHECK, "HEAVY_CHECK", "VS16", "BALLOT_CHECK",
               "RED_CIRCLE", "GREEN_CIRCLE", "STAR", "TARGET"}
\* the character class of nuclear_tick_fix's re.sub
NuclearGlyphs == {TICK, CHECK, "HEAVY_CHECK", "VS16", "BALLOT_CHECK"}

RECURSIVE AMT_Lines(_, _)
\* the loop of add_missing_ticks
AMT_Lines(ls, in_question) ==
    IF ls = <<>> THEN <<>>
    ELSE LET line == ls[1] IN
         IF MatchQNum(line) THEN <<line>> \o AMT_Lines(Tail(ls), TRUE)
         ELSE IF MatchLowerOpt(line) /\ in_question
         THEN IF StartsWith(line, <<"d", ")">>)
              THEN <<line \o <<SP, TICK>>>> \o AMT_Lines(Tail(ls), FALSE)
              ELSE <<line>> \o AMT_Lines(Tail(ls), in_question)
         ELSE <<line>> \o AMT_Lines(Tail(ls), in_question)

add_missing_ticks(lines) == AMT_Lines(lines, FALSE)

RECURSIVE ECAF_Lines(_, _)
\* the loop of enforce_correct_answer_format; has_tick is
\* current_question_has_tick
ECAF_Lines(ls, has_tick) ==
    IF ls = <<>> THEN <<>>
    ELSE LET line == Strip(ls[1]) IN
         IF line = <<>> THEN <<line>> \o ECAF_Lines(Tail(ls), has_tick)
         ELSE IF MatchQNum(line) THEN <<line>> \o ECAF_Lines(Tail(ls), FALSE)
         ELSE IF MatchLowerOpt(line)
         THEN LET clean_line == Strip(RemoveChars(line, EcafGlyphs)) IN
              IF ~has_tick /\ StartsWith(line, <<"d", ")">>)
              THEN <<clean_line \o <<SP, TICK>>>> \o ECAF_Lines(Tail(ls), TRUE)
              ELSE <<clean_line>> \o ECAF_Lines(Tail(ls), has_tick)
         ELSE <<line>> \o ECAF_Lines(Tail(ls), has_tick)

enforce_correct_answer_format(text) ==
    LET formatted_lines == ECAF_Lines(Lines(text), FALSE)
        any_tick == \E i \in 1..Len(formatted_lines) : Contains(formatted_lines[i], TICK)
    IN Join(IF ~any_tick THEN add_missing_ticks(formatted_lines) ELSE formatted_lines,
            <<NL>>)

NTF_Line(raw_line) ==
    LET line == Strip(RemoveChars(Strip(raw_line), NuclearGlyphs)) IN
    IF StartsWith(line, <<"d", ")">>) THEN line \o <<SP, TICK>> ELSE line

nuclear_tick_fix(text) ==
    LET lines == Lines(text) IN
    Join([i \in 1..Len(lines) |-> NTF_Line(lines[i])], <<NL>>)

-----------------------------------------------------------------------------
(* helpers.py: clean_question_format *)

\* the character class removed by clean_question_format
CqfGlyphs == {"MAGNIFIER", "MEMO", "KEY", "BULB", "TARGET", "ARROWS", "PAGE",
              "FRAME", "VS16", "GLOBE", "CHART"}

\* any(opt in line for opt in ['a)', 'b)', 'c)', 'd)'])
HasLowerOptSub(line) ==
    \E i \in 1..(Len(line) - 1) : line[i] \in Lower /\ line[i + 1] = ")"

PSQ_Line(i, line) ==
    IF i = 1 /\ MatchQNumSp(line) THEN line
    ELSE IF /\ MatchQNumSp(line)
            /\ ~MatchLowerOpt(line)
            /\ ~StartsWith(line, ExPrefix)
            /\ Len(line) > 3
            /\ ~HasLowerOptSub(line)
         \* re.sub(r'^(\d+)\.\s', r'\1) ', line)
         THEN LET d == DigitRun(line, 1) IN
              Take(line, d) \o <<")", SP>> \o Drop(line, d + 2)
         ELSE line

process_single_question(question_lines) ==
    [i \in 1..Len(question_lines) |-> PSQ_Line(i, question_lines[i])]

CQF_Flush(current_question) ==
    Lines(optimize_for_poll(Join(process_single_question(current_question), <<NL>>)))

RECURSIVE CQF_Lines(_, _, _)
\* the loop of clean_question_format and the flush after it
CQF_Lines(ls, cleaned_lines, current_question) ==
    IF ls = <<>>
    THEN IF current_question # <<>>
         THEN cleaned_lines \o CQF_Flush(current_question)
         ELSE cleaned_lines
    ELSE LET line == Strip(ls[1]) IN
         IF line = <<>> THEN CQF_Lines(Tail(ls), cleaned_lines, current_question)
         ELSE IF MatchQNumSp(line) /\ ~HasLowerOptSub(line)
         THEN IF current_question # <<>>
              THEN CQF_Lines(Tail(ls),
                             cleaned_lines \o CQF_Flush(current_question) \o <<<<>>>>,
                             <<line>>)
              ELSE CQF_Lines(Tail(ls), cleaned_lines, <<line>>)
         ELSE IF current_question # <<>>
         THEN CQF_Lines(Tail(ls), cleaned_lines, Append(current_question, line))
         ELSE CQF_Lines(Tail(ls), Append(cleaned_lines, line), current_question)

clean_question_format(text) ==
    LET cleaned_lines == CQF_Lines(Lines(RemoveChars(text, CqfGlyphs)), <<>>, <<>>) IN
    Join(IF cleaned_lines # <<>> /\ cleaned_lines[Len(cleaned_lines)] = <<>>
         THEN SubSeq(cleaned_lines, 1, Len(cleaned_lines) - 1)
         ELSE cleaned_lines,
         <<NL>>)

-----------------------------------------------------------------------------
(* ai_handler.py: split_mcqs, normalize_option_line, shorten_and_compact,
   assign_ticks_and_build *)

SAC_QUESTION_LIMIT == 240
SAC_OPTION_LIMIT_BILINGUAL == 100
SAC_OPTION_LIMIT == 70
SAC_EX_LIMIT == 160

NonEmpty(parts) == SelectSeq(parts, LAMBDA p : p # <<>>)
Stripped(parts) == [i \in 1..Len(parts) |-> Strip(parts[i])]

\* re.split(r'\n(?=\d+\.\s)', raw): the newlines followed by "<digits>.<space>"
QNumBreaks(text) ==
    SelectSeq([i \in 1..Len(text) |-> i],
              LAMBDA i : text[i] = NL /\ MatchQNumSp(Drop(text, i)))

split_mcqs(text) == NonEmpty(Stripped(SplitAt(text, QNumBreaks(text))))

normalize_option_line(op_line, max_len) ==
    LET s == Join(Words(op_line), <<SP>>) IN
    IF Len(s) > max_len THEN RStrip(Take(s, max_len - 3)) \o Ellipsis ELSE s

\* ln.lower().startswith("ex:")
IsExLine(ln) == Lowered(Take(ln, 3)) = <<"e", "x", ":">>

\* block.split("\n") without the blank lines, each line rstripped
BlockLines(block) ==
    LET ls == SelectSeq(Lines(block), LAMBDA l : Strip(l) # <<>>) IN
    [i \in 1..Len(ls) |-> RStrip(ls[i])]

\* None is <<>>, a returned struct s is <<s>>
shorten_and_compact(block, bilingual) ==
    LET lines == BlockLines(block)
        numbered == SelectSeq(lines, MatchQNumSp)
        option_lines == SelectSeq(lines, LAMBDA ln : ~MatchQNumSp(ln) /\ MatchUpperOpt(ln))
        ex_lines == SelectSeq(lines, LAMBDA ln : /\ ~MatchQNumSp(ln)
                                                  /\ ~MatchUpperOpt(ln)
                                                  /\ IsExLine(ln))
        fallback == SelectSeq(lines, LAMBDA ln : ~MatchUpperOpt(ln) /\ ~IsExLine(ln))
        question_line ==
            IF numbered # <<>> THEN Strip(numbered[1])
            ELSE IF fallback # <<>> THEN Strip(fallback[1]) ELSE <<>>
        options == [i \in 1..Len(option_lines) |->
                       normalize_option_line(
                           Strip(RemoveChars(option_lines[i], {TICK})),
                           IF bilingual THEN SAC_OPTION_LIMIT_BILINGUAL
                           ELSE SAC_OPTION_LIMIT)]
        explanation ==
            IF ex_lines = <<>> THEN <<>>
            ELSE ExPrefix \o <<SP>> \o Strip(Drop(ex_lines[Len(ex_lines)], 3))
    IN IF Take(question_line, SAC_QUESTION_LIMIT) = <<>> \/ Len(options) < 4 THEN <<>>
       ELSE <<[question |-> Take(question_line, SAC_QUESTION_LIMIT),
               options |-> options,
               explanation |-> Take(explanation, SAC_EX_LIMIT)]>>

\* one option line of assign_ticks_and_build, for the assigned letter
ATB_Option(o, letter) ==
    IF MatchUpperOpt(o)
    THEN LET op_letter == o[2]
             rest == Strip(Drop(o, 3))
         IN IF op_letter = letter
            THEN <<"(", op_letter, ")", SP>> \o rest \o <<SP, TICK>>
            ELSE <<"(", op_letter, ")", SP>> \o rest
    ELSE o

ATB_Options(struct, letter) ==
    [i \in 1..Len(struct.options) |-> ATB_Option(struct.options[i], letter)]

ATB_Block(struct, letter) ==
    Join(<<struct.question>> \o ATB_Options(struct, letter)
            \o (IF struct.explanation # <<>> THEN <<struct.explanation>> ELSE <<>>),
         <<NL>>)

\* assign_ticks_and_build for the pool returned by balanced_shuffled_letters
assign_ticks_and_build(structs, letters) ==
    IF Len(structs) = 0 THEN <<>>
    ELSE Join([i \in 1..Len(structs) |-> ATB_Block(structs[i], letters[i])],
              <<NL, NL>>)

-----------------------------------------------------------------------------
(* ai_handler_3.py: detect_correct_answer, shorten_mcqs, the block loop of
   ai_command *)

SM_QUESTION_LIMIT == 200
SM_OPTION_LIMIT == 50
SM_EX_LIMIT == 120

\* position of the end of the line that holds position i (the last
\* character before the next newline)
LineEnd(s, i) ==
    LET nls == SelectSeq([j \in 1..Len(s) |-> j], LAMBDA j : j >= i /\ s[j] = NL) IN
    IF nls = <<>> THEN Len(s) ELSE nls[1] - 1

\* "(X)" with X in A-D stands at position i
UpperOptAt(s, i) ==
    i + 2 <= Len(s) /\ s[i] = "(" /\ s[i + 1] \in Upper /\ s[i + 2] = ")"

\* re.search(r'\(([A-D])\).*?TICK', block): the leftmost "(X)" that has a
\* mark later on its line; <<>> when there is none
TickedLetter(block) ==
    LET hits == SelectSeq([i \in 1..Len(block) |-> i],
                    LAMBDA i : /\ UpperOptAt(block, i)
                               /\ \E j \in (i + 3)..LineEnd(block, i) : block[j] = TICK)
    IN IF hits = <<>> THEN <<>> ELSE <<block[hits[1] + 1]>>

RECURSIVE SkipWS(_, _)
\* the position after the run of whitespace that starts at i
SkipWS(s, i) == IF i <= Len(s) /\ s[i] \in WS THEN SkipWS(s, i + 1) ELSE i

WordAt(s, i, w) == i + Len(w) - 1 <= Len(s) /\ SubSeq(s, i, i + Len(w) - 1) = w

\* r'[Cc]orrect\s*[Aa]nswer\s*(?:is|:)\s*([A-D])' matched at position i:
\* the position of the letter, 0 when there is no match at i
DeclaredAt(s, i) ==
    IF ~(WordAt(s, i, <<"C", "o", "r", "r", "e", "c", "t">>)
         \/ WordAt(s, i, <<"c", "o", "r", "r", "e", "c", "t">>)) THEN 0
    ELSE LET a == SkipWS(s, i + 7) IN
         IF ~(WordAt(s, a, <<"A", "n", "s", "w", "e", "r">>)
              \/ WordAt(s, a, <<"a", "n", "s", "w", "e", "r">>)) THEN 0
         ELSE LET b == SkipWS(s, a + 6)
                  c == IF WordAt(s, b, <<"i", "s">>) THEN b + 2
                       ELSE IF WordAt(s, b, <<":">>) THEN b + 1 ELSE 0
              IN IF c = 0 THEN 0
                 ELSE LET d == SkipWS(s, c) IN
                      IF d <= Len(s) /\ s[d] \in Upper THEN d ELSE 0

DeclaredLetter(block) ==
    LET hits == SelectSeq([i \in 1..Len(block) |-> i],
                          LAMBDA i : DeclaredAt(block, i) # 0)
    IN IF hits = <<>> THEN <<>> ELSE <<block[DeclaredAt(block, hits[1])]>>

\* start of the text group of r'\(([A-D])\)\s*(.+)' for a "(X)" at position
\* i: \s* is greedy and gives characters back until (.+) can take one
\* character that is no newline; 0 when the pattern does not match at i
OptTextStart(s, i) ==
    LET j == SkipWS(s, i + 3) IN
    IF j <= Len(s) THEN j
    ELSE LET back == SelectSeq([k \in 1..Len(s) |-> k],
                               LAMBDA k : k >= i + 3 /\ s[k] # NL)
         IN IF back = <<>> THEN 0 ELSE back[Len(back)]

RECURSIVE FindOptions(_, _)
\* re.findall(r'\(([A-D])\)\s*(.+)', block) from position i on: the pairs
\* <<letter, text>> of the matches, left to right, not overlapping
FindOptions(s, i) ==
    LET hits == SelectSeq([k \in 1..Len(s) |-> k],
                          LAMBDA k : k >= i /\ UpperOptAt(s, k) /\ OptTextStart(s, k) # 0)
    IN IF hits = <<>> THEN <<>>
       ELSE LET k == hits[1]
                t == OptTextStart(s, k)
                e == LineEnd(s, t)
            IN <<<<s[k + 1], SubSeq(s, t, e)>>>> \o FindOptions(s, e + 1)

\* the dict built from the pairs: a later pair of the same letter replaces
\* the text, the letter keeps the place of its first pair
RECURSIVE DictOf(_, _)
DictOf(pairs, acc) ==
    IF pairs = <<>> THEN acc
    ELSE LET key == pairs[1][1]
             val == pairs[1][2]
             at == SelectSeq([k \in 1..Len(acc) |-> k], LAMBDA k : acc[k][1] = key)
         IN DictOf(Tail(pairs),
                   IF at = <<>> THEN Append(acc, <<key, val>>)
                   ELSE [acc EXCEPT ![at[1]] = <<key, val>>])

\* re.search(r'Ex:\s*(.+)', block, flags=re.DOTALL), stripped and lowered
ExplanationOf(block) ==
    LET hits == SelectSeq([i \in 1..Len(block) |-> i],
                    LAMBDA i : WordAt(block, i, ExPrefix) /\ i + 3 <= Len(block))
    IN IF hits = <<>> THEN <<>>
       ELSE Lowered(Strip(Drop(block, hits[1] + 2)))

WordSet(s) == {Words(s)[i] : i \in 1..Len(Words(s))}

RECURSIVE BestOption(_, _, _, _)
\* the loop "for k, v in options.items(): ... if score > best[1]: best = (k, score)"
BestOption(opts, ex, best_key, best_score) ==
    IF opts = <<>> THEN IF best_score > 0 THEN best_key ELSE <<>>
    ELSE LET v == opts[1][2]
             score == IF v # <<>> /\ ex # <<>>
                      THEN Cardinality(WordSet(Lowered(v)) \cap WordSet(ex)) ELSE 0
         IN IF score > best_score
            THEN BestOption(Tail(opts), ex, <<opts[1][1]>>, score)
            ELSE BestOption(Tail(opts), ex, best_key, best_score)

StripSecond(pairs) == [i \in 1..Len(pairs) |-> <<pairs[i][1], Strip(pairs[i][2])>>]

\* the letter as a one-character text, <<>> for ""
detect_correct_answer(block) ==
    IF TickedLetter(block) # <<>> THEN TickedLetter(block)
    ELSE IF DeclaredLetter(block) # <<>> THEN DeclaredLetter(block)
    ELSE BestOption(DictOf(StripSecond(FindOptions(block, 1)), <<>>),
                    ExplanationOf(block), <<>>, 0)

SM_Flush(q, opts, ex) ==
    <<Take(q, SM_QUESTION_LIMIT)>>
        \o [i \in 1..Len(opts) |-> Take(opts[i], SM_OPTION_LIMIT)]
        \o (IF ex # <<>> THEN <<ExPrefix \o <<SP>> \o Take(ex, SM_EX_LIMIT)>> ELSE <<>>)

RECURSIVE SM_Lines(_, _, _, _, _)
\* the loop of shorten_mcqs and the flush after it
SM_Lines(ls, out, q, opts, ex) ==
    IF ls = <<>> THEN IF q # <<>> THEN out \o SM_Flush(q, opts, ex) ELSE out
    ELSE LET line == ls[1] IN
         IF MatchQNum(line)
         THEN SM_Lines(Tail(ls),
                       IF q # <<>> THEN out \o SM_Flush(q, opts, ex) \o <<<<>>>> ELSE out,
                       Strip(line), <<>>, <<>>)
         ELSE IF MatchUpperOpt(line)
         THEN SM_Lines(Tail(ls), out, q, Append(opts, Strip(line)), ex)
         ELSE IF StartsWith(line, ExPrefix)
         THEN SM_Lines(Tail(ls), out, q, opts, Strip(Drop(line, 3)))
         ELSE SM_Lines(Tail(ls), out, q, opts, ex)

shorten_mcqs(text) == Strip(Join(SM_Lines(Lines(text), <<>>, <<>>, <<>>, <<>>), <<NL>>))

\* the backquote character U+0060
BACKTICK == "BACKTICK"
Fence == <<BACKTICK, BACKTICK, BACKTICK>>

\* line 220, re.sub of a whole fenced reply by '' and strip(): a reply that
\* begins with a fence and ends with one (a final newline allowed) is
\* replaced by the empty text
AI3_StripFence(text) ==
    LET body == IF text # <<>> /\ text[Len(text)] = NL
                THEN SubSeq(text, 1, Len(text) - 1) ELSE text
        fenced(t) == /\ Len(t) >= 6
                     /\ SubSeq(t, 1, 3) = Fence
                     /\ SubSeq(t, Len(t) - 2, Len(t)) = Fence
    IN IF fenced(text) THEN <<>>
       ELSE IF fenced(body) THEN <<>>
       ELSE Strip(text)

\* re.split(r'\n(?=\d+\.)', compact)
QNumBreaksNoSpace(text) ==
    SelectSeq([i \in 1..Len(text) |-> i],
              LAMBDA i : text[i] = NL /\ MatchQNum(Drop(text, i)))

\* re.sub(rf'\({correct}\)(.*)', rf'({correct})\1 TICK', block) on one line:
\* a line that contains "(correct)" gets " TICK" appended
AI3_MarkLine(line, correct) ==
    IF \E i \in 1..Len(line) : WordAt(line, i, <<"(", correct, ")">>)
    THEN line \o <<SP, TICK>> ELSE line

\* lines 233-245 for one block
AI3_FixBlock(block) ==
    LET correct == detect_correct_answer(block)
        unticked == RemoveChars(block, {TICK})
        ls == Lines(unticked)
    IN IF correct # <<>>
       THEN Join([i \in 1..Len(ls) |-> AI3_MarkLine(ls[i], correct[1])], <<NL>>)
       ELSE unticked

\* lines 226-247
AI3_FixBlocks(compact) ==
    LET bs == SelectSeq(SplitAt(compact, QNumBreaksNoSpace(compact)),
                        LAMBDA b : Strip(b) # <<>>)
    IN Join([i \in 1..Len(bs) |-> AI3_FixBlock(bs[i])], <<NL>>)

-----------------------------------------------------------------------------
(* bot.py: strip_code_fence, parse_mcq_text, renumber_and_format *)

\* the characters of the model's alphabet that \w does not match
NonWordChars ==
    WS \cup SentenceEnd \cup EcafGlyphs \cup CqfGlyphs
       \cup {"(", ")", ":", "-", "/", ",", BACKTICK}

RECURSIVE WordRun(_, _)
\* the position after the run of \w characters that starts at i
WordRun(s, i) ==
    IF i <= Len(s) /\ s[i] \notin NonWordChars THEN WordRun(s, i + 1) ELSE i

\* start of group 1 of the pattern  FENCE(?:\w*\n)?(.*?)FENCE  for an
\* opening fence at p
FenceContentStart(s, p) ==
    LET w == WordRun(s, p + 3) IN
    IF w <= Len(s) /\ s[w] = NL THEN w + 1 ELSE p + 3

\* positions of the fences that start at or after position i
FencesFrom(s, i) ==
    SelectSeq([k \in 1..Len(s) |-> k], LAMBDA k : k >= i /\ WordAt(s, k, Fence))

RECURSIVE StripFenceFrom(_, _)
\* re.sub over the text from position i on: every opening fence that has a
\* closing fence is replaced, with its language tag line and the closing
\* fence, by the text between them
StripFenceFrom(s, i) ==
    LET opens == SelectSeq(FencesFrom(s, i),
                     LAMBDA p : FencesFrom(s, FenceContentStart(s, p)) # <<>>)
    IN IF opens = <<>> THEN SubSeq(s, i, Len(s))
       ELSE LET p == opens[1]
                c == FencesFrom(s, FenceContentStart(s, p))[1]
            IN SubSeq(s, i, p - 1) \o SubSeq(s, FenceContentStart(s, p), c - 1)
                  \o StripFenceFrom(s, c + 3)

strip_code_fence(text) == StripFenceFrom(text, 1)

\* str.splitlines() for texts whose only line break is "\n"
SplitLines(s) ==
    IF s = <<>> THEN <<>>
    ELSE IF s[Len(s)] = NL THEN Lines(SubSeq(s, 1, Len(s) - 1)) ELSE Lines(s)

AnyLetter == Upper \cup Lower

\* option_re = r'^\(?([a-dA-D])\)?[.)\s:-]?\s*(.*)': position of the letter,
\* 0 when the line is no option line
OptionLetterPos(ln) ==
    IF Len(ln) >= 1 /\ ln[1] \in AnyLetter THEN 1
    ELSE IF Len(ln) >= 2 /\ ln[1] = "(" /\ ln[2] \in AnyLetter THEN 2
    ELSE 0

\* group 2 of option_re
OptionRest(ln) ==
    LET a == OptionLetterPos(ln) + 1
        b == IF a <= Len(ln) /\ ln[a] = ")" THEN a + 1 ELSE a
        c == IF b <= Len(ln) /\ ln[b] \in ({".", ")", ":", "-"} \cup WS) THEN b + 1 ELSE b
    IN SubSeq(ln, SkipWS(ln, c), Len(ln))

\* qnum_re = r'^\s*\d+\.\s*(.*)'
MatchBotQNum(ln) == MatchQNum(LStrip(ln))
BotQNumRest(ln) ==
    LET t == LStrip(ln) IN SubSeq(t, SkipWS(t, DigitRun(t, 1) + 2), Len(t))

\* q["options"][key] = val on the dict kept as pairs in insertion order
DictPut(opts, key, val) ==
    LET at == SelectSeq([k \in 1..Len(opts) |-> k], LAMBDA k : opts[k][1] = key) IN
    IF at = <<>> THEN Append(opts, <<key, val>>)
    ELSE [opts EXCEPT ![at[1]] = <<key, val>>]

\* q.get("options", {}).get(opt, "")
DictGet(opts, key) ==
    LET at == SelectSeq([k \in 1..Len(opts) |-> k], LAMBDA k : opts[k][1] = key) IN
    IF at = <<>> THEN <<>> ELSE opts[at[1]][2]

\* one line of the inner loop of parse_mcq_text applied to the question q
PMT_Line(q, ln) ==
    IF OptionLetterPos(ln) # 0
    THEN LET key == ToLower(ln[OptionLetterPos(ln)])
             val == Strip(OptionRest(ln))
             marked == Contains(val, TICK) \/ Contains(val, CHECK)
             val2 == IF marked THEN Strip(RemoveChars(val, {TICK, CHECK})) ELSE val
         IN [q EXCEPT !.answer = IF marked THEN <<key>> ELSE @,
                      !.options = DictPut(@, key, val2)]
    ELSE IF IsExLine(ln)
    \* ln.split(":", 1)[1].strip()
    THEN [q EXCEPT !.explanation = Strip(Drop(ln, 3))]
    ELSE IF q.options # <<>>
    THEN [q EXCEPT !.options[Len(q.options)] =
                       <<q.options[Len(q.options)][1],
                         q.options[Len(q.options)][2] \o <<SP>> \o ln>>]
    ELSE [q EXCEPT !.question = @ \o <<SP>> \o ln]

RECURSIVE PMT_Lines(_, _, _)
\* the loops of parse_mcq_text: cur is <<>> before the first question line
\* and <<q>> while question q is being read
PMT_Lines(ls, qs, cur) ==
    IF ls = <<>> THEN qs \o cur
    ELSE LET ln == Strip(ls[1]) IN
         IF MatchBotQNum(ln)
         THEN PMT_Lines(Tail(ls), qs \o cur,
                        <<[question |-> Strip(BotQNumRest(ln)), options |-> <<>>,
                           answer |-> <<>>, explanation |-> <<>>]>>)
         ELSE IF cur = <<>> \/ ln = <<>> THEN PMT_Lines(Tail(ls), qs, cur)
         ELSE PMT_Lines(Tail(ls), qs, <<PMT_Line(cur[1], ln)>>)

parse_mcq_text(text) ==
    LET stripped == Strip(strip_code_fence(text))
        split == SplitLines(stripped)
        lines == [i \in 1..Len(split) |-> RStrip(split[i])]
    IN PMT_Lines(lines, <<>>, <<>>)

LowerOrder == <<"a", "b", "c", "d">>

\* the lines renumber_and_format emits for question q with number idx
RAF_Question(q, idx) ==
    <<Numeral(idx) \o <<".", SP, SP>> \o q.question>>
      \o [k \in 1..4 |->
            <<SP, SP, SP, SP, LowerOrder[k], ")", SP>> \o DictGet(q.options, LowerOrder[k])
               \o (IF q.answer = <<LowerOrder[k]>> THEN <<SP, TICK>> ELSE <<>>)]
      \o (IF q.explanation # <<>>
          THEN <<<<SP, SP, SP, SP>> \o ExPrefix \o <<SP>> \o q.explanation>> ELSE <<>>)
      \o <<<<>>>>

RECURSIVE RAF_Lines(_, _)
RAF_Lines(parsed, idx) ==
    IF parsed = <<>> THEN <<>>
    ELSE RAF_Question(parsed[1], idx) \o RAF_Lines(Tail(parsed), idx + 1)

renumber_and_format(parsed) ==
    IF parsed = <<>> THEN <<>> ELSE Strip(Join(RAF_Lines(parsed, 1), <<NL>>))

-----------------------------------------------------------------------------
(* bi_handler.py: split_mcq_blocks, process_block and the helpers it calls *)

\* a letter of the Gujarati block U+0A80-U+0AFF
GU == "GU"

AsciiLetters ==
    {"a", "b", "c", "d", "e", "f", "g", "h", "i", "j", "k", "l", "m", "n", "o", "p", "q", "r", "s", "t", "u", "v", "w", "x", "y", "z",
     "A", "B", "C", "D", "E", "F", "G", "H", "I", "J", "K", "L", "M", "N", "O", "P", "Q", "R", "S", "T", "U", "V", "W", "X", "Y", "Z"}

ENGLISH_GRAMMAR_KEYWORDS ==
    { <<"e", "n", "g", "l", "i", "s", "h", " ", "g", "r", "a", "m", "m", "a", "r">>,
      <<"g", "r", "a", "m", "m", "a", "r">>,
      <<"p", "a", "r", "t", "s", " ", "o", "f", " ", "s", "p", "e", "e", "c", "h">>,
      <<"n", "o", "u", "n">>,
      <<"p", "r", "o", "n", "o", "u", "n">>,
      <<"a", "d", "j", "e", "c", "t", "i", "v", "e">>,
      <<"v", "e", "r", "b">>,
      <<"a", "d", "v", "e", "r", "b">>,
      <<"p", "r", "e", "p", "o", "s", "i", "t", "i", "o", "n">>,
      <<"c", "o", "n", "j", "u", "n", "c", "t", "i", "o", "n">>,
      <<"i", "n", "t", "e", "r", "j", "e", "c", "t", "i", "o", "n">>,
      <<"a", "r", "t", "i", "c", "l", "e", "s">>,
      <<"t", "e", "n", "s", "e", "s">>,
      <<"a", "c", "t", "i", "v", "e", " ", "p", "a", "s", "s", "i", "v", "e">>,
      <<"d", "i", "r", "e", "c", "t", " ", "i", "n", "d", "i", "r", "e", "c", "t">>,
      <<"s", "e", "n", "t", "e", "n", "c", "e", " ", "c", "o", "r", "r", "e", "c", "t", "i", "o", "n">>,
      <<"e", "r", "r", "o", "r", " ", "d", "e", "t", "e", "c", "t", "i", "o", "n">>,
      <<"e", "r", "r", "o", "r", " ", "s", "p", "o", "t", "t", "i", "n", "g">>,
      <<"f", "i", "l", "l", " ", "i", "n", " ", "t", "h", "e", " ", "b", "l", "a", "n", "k", "s">>,
      <<"c", "l", "o", "z", "e">>,
      <<"v", "e", "r", "b", " ", "f", "o", "r", "m">>,
      <<"t", "e", "n", "s", "e">>,
      <<"e", "r", "r", "o", "r">>,
      <<"s", "p", "o", "t", "t", "i", "n", "g">> }

\* kw in text
HasSub(text, kw) ==
    \E i \in 1..(Len(text) - Len(kw) + 1) : text[i] = kw[1] /\ WordAt(text, i, kw)

\* parts = re.split(r'\n(?=\d+\.\s)', text), stripped, empty parts dropped
split_mcq_blocks(text) == split_mcqs(text)

\* the lines of a block that are not blank, each rstripped
extract_lines(block) == BlockLines(block)

\* re.search(r'\(([A-D])\)[^\n\rTICK]*?TICK', block)
detect_existing_tick_option(block) == TickedLetter(block)

\* eng_chars > 0 and eng_chars / max(1, non_space) > 0.05
is_mostly_english(s) ==
    LET eng_chars == Len(SelectSeq(s, LAMBDA c : c \in AsciiLetters))
        non_space == Len(SelectSeq(s, LAMBDA c : c # SP))
    IN eng_chars > 0 /\ 20 * eng_chars > Max({1, non_space})

\* re.search of a character in U+0A80-U+0AFF
HasGujarati(s) == Contains(s, GU)

\* detect_mode_for_block: a Gujarati grammar keyword is a word of several
\* Gujarati letters, which no text over GU spells, so "gujarati_grammar"
\* is not among the results here
detect_mode_for_block(block) ==
    LET low == Lowered(block) IN
    IF \E kw \in ENGLISH_GRAMMAR_KEYWORDS : HasSub(low, kw)
    THEN "english_grammar" ELSE "bilingual"

\* normalize_option_prefix on a line that starts with "(X)": <<letter, content>>
normalize_option_prefix(op_line) ==
    LET t == LStrip(op_line) IN <<t[2], Strip(Drop(t, 3))>>

RECURSIVE PB_Scan(_, _)
\* the loop of process_block over the lines of the block
PB_Scan(ls, acc) ==
    IF ls = <<>> THEN acc
    ELSE LET ln == ls[1] IN
         PB_Scan(Tail(ls),
            IF MatchQNumSp(ln)
            THEN [acc EXCEPT !.question_lines =
                                Append(@, Strip(Drop(ln, DigitRun(ln, 1) + 1)))]
            ELSE IF MatchUpperOpt(ln)
            THEN [acc EXCEPT !.option_lines = Append(@, Strip(ln))]
            ELSE IF IsExLine(ln)
            THEN [acc EXCEPT !.explanation_line = ExPrefix \o <<SP>> \o Strip(Drop(ln, 3))]
            ELSE IF acc.option_lines # <<>> THEN acc
            ELSE [acc EXCEPT !.question_lines = Append(@, Strip(ln))])

Slash == <<SP, "/", SP>>

\* translate_to_english_gemini(text) or fallback, the call having returned tr
\* (<<>>: None or an empty line)
OrElse(tr, fallback) == IF tr # <<>> THEN tr ELSE fallback

\* the "Gujarati / English" composition of the bilingual branch
PB_Compose(prefix, content, tr) ==
    LET guj == IF HasGujarati(content) THEN content ELSE <<>>
        en == IF HasGujarati(content) THEN tr ELSE content
    IN IF guj # <<>> /\ en # <<>> THEN prefix \o guj \o Slash \o en
       ELSE IF guj # <<>> THEN prefix \o guj
       ELSE prefix \o en

PB_QUESTION_LIMIT == 240
PB_OPTION_LIMIT == 100
PB_EX_LIMIT == 160

\* the branch "english_grammar" of process_block
PB_EnglishGrammar(raw_question, raw_options, explanation_line, tr) ==
    [question |-> Take(IF is_mostly_english(raw_question) THEN raw_question
                       ELSE OrElse(tr.q, raw_question), PB_QUESTION_LIMIT),
     options |-> [k \in 1..Len(raw_options) |->
                    <<"(", raw_options[k][1], ")", SP>>
                       \o (IF is_mostly_english(raw_options[k][2]) THEN raw_options[k][2]
                           ELSE OrElse(tr.o[k], raw_options[k][2]))],
     explanation |-> explanation_line]

\* the branch "bilingual" of process_block; the re.sub inside the f-string of
\* line 309 has the pattern ^Ex:\\s*, which asks for a backslash after
\* "Ex:" and so leaves explanation_out as it is
PB_Bilingual(raw_question, raw_options, explanation_line, tr) ==
    [question |-> Take(PB_Compose(<<>>, raw_question, tr.q), PB_QUESTION_LIMIT),
     options |-> [k \in 1..Len(raw_options) |->
                    Take(PB_Compose(<<"(", raw_options[k][1], ")", SP>>,
                                    raw_options[k][2], tr.o[k]), PB_OPTION_LIMIT)],
     explanation |->
        IF explanation_line = <<>> THEN <<>>
        ELSE IF HasGujarati(explanation_line)
        THEN Take(ExPrefix \o <<SP>> \o explanation_line \o Slash \o tr.e, PB_EX_LIMIT)
        ELSE Take(explanation_line, PB_EX_LIMIT)]

\* lines 312-325: the existing tick is put back on its option line
PB_Retick(options_out, existing_tick) ==
    IF existing_tick = <<>> THEN options_out
    ELSE [k \in 1..Len(options_out) |->
            IF normalize_option_prefix(options_out[k])[1] = existing_tick[1]
            THEN IF Contains(options_out[k], TICK) THEN options_out[k]
                 ELSE options_out[k] \o <<SP, TICK>>
            ELSE Strip(RemoveChars(options_out[k], {TICK}))]

\* process_block(block, False, ""): <<>> for None, <<struct>> otherwise; tr
\* holds what the translation calls of this block return
process_block(block, tr) ==
    LET acc == PB_Scan(extract_lines(block),
                       [question_lines |-> <<>>, option_lines |-> <<>>,
                        explanation_line |-> <<>>])
        raw_question == Join(acc.question_lines, Slash)
        raw_options == [k \in 1..Len(acc.option_lines) |->
                           normalize_option_prefix(acc.option_lines[k])]
        out == IF detect_mode_for_block(block) = "english_grammar"
               THEN PB_EnglishGrammar(raw_question, raw_options, acc.explanation_line, tr)
               ELSE PB_Bilingual(raw_question, raw_options, acc.explanation_line, tr)
    IN IF acc.question_lines = <<>> \/ Len(acc.option_lines) < 4 THEN <<>>
       ELSE <<[out EXCEPT !.options =
                  PB_Retick(@, detect_existing_tick_option(block))]>>

\* re.sub(r'\s+\n', '\n', blk).strip(): whitespace that has a newline later
\* in its run of whitespace is removed
BI_Sanitize(blk) ==
    LET keep == SelectSeq([j \in 1..Len(blk) |-> j],
                    LAMBDA j : ~(/\ blk[j] \in WS
                                 /\ \E k \in (j + 1)..(SkipWS(blk, j) - 1) : blk[k] = NL))
    IN Strip([j \in 1..Len(keep) |-> blk[keep[j]]])

\* lines 427-431: the text of block number i built from its struct
BI_Build(struct, i) ==
    Join(<<Numeral(i) \o <<".", SP>> \o struct.question>> \o struct.options
            \o (IF struct.explanation # <<>> THEN <<struct.explanation>> ELSE <<>>),
         <<NL>>)

\* the body of the block loop of bi_command for block number i
BI_Convert(blk, i, tr) ==
    LET struct == process_block(blk, tr) IN
    IF struct = <<>> THEN BI_Sanitize(blk) ELSE BI_Build(struct[1], i)

BI_CHUNK == 15

\* chunk_list(lst, size)
chunk_list(lst, size) ==
    [p \in 1..((Len(lst) + size - 1) \div size) |->
        SubSeq(lst, (p - 1) * size + 1, Min({p * size, Len(lst)}))]

-----------------------------------------------------------------------------
(* ai_handler.py: balanced_shuffled_letters *)

LetterOrder == <<"A", "B", "C", "D">>

Perms4 ==
    {p \in [1..4 -> Upper] : \A i, j \in 1..4 : i # j => p[i] # p[j]}

\* the remainder given to the first letter alone
BSLCounts_RemainderToOne(k, letters) ==
    LET base == k \div 4
        remainder == k % 4
    IN [l \in Upper |-> base + (IF letters[1] = l THEN remainder ELSE 0)]

\* counts after "distribute remainder randomly among letters", for one
\* outcome 'letters' of random.shuffle(letters)
BSLCounts(k, letters) ==
    LET base == k \div 4
        remainder == k % 4
    IN [l \in Upper |->
          base + (IF \E i \in 1..remainder : letters[i] = l THEN 1 ELSE 0)]

CountOf(s, c) == Cardinality({i \in 1..Len(s) : s[i] = c})


-----------------------------------------------------------------------------
(* helpers.py: enforce_telegram_limits_strict, and the cleanup sequence the
   handlers end with *)

\* enforce_telegram_limits_strict is imported from helpers by ai_handler.py,
\* ai_handler_3.py and bi_handler.py and has no definition in the sources at
\* hand.  It is taken to be the per-line hard cut to the budgets of
\* enforce_telegram_limits, which returns a line within its budget as it is.
STRICT_Line(raw_line) ==
    LET line == Strip(raw_line) IN
    IF MatchQNum(line) THEN Take(line, ETL_QUESTION_LIMIT)
    ELSE IF MatchLowerOpt(line) THEN Take(line, ETL_OPTION_LIMIT)
    ELSE IF StartsWith(line, ExPrefix) THEN Take(line, 3 + ETL_EX_LIMIT)
    ELSE line

enforce_telegram_limits_strict(text) ==
    LET lines == Lines(text) IN
    Join([i \in 1..Len(lines) |-> STRICT_Line(lines[i])], <<NL>>)

\* ai_handler.py lines 387-395, ai_handler_3.py lines 252-259, bi_handler.py
\* lines 444-449: the four helper passes, then nuclear_tick_fix when the
\* text holds no mark at all
NuclearIfNoTick(cleaned) ==
    IF Contains(cleaned, TICK) THEN cleaned ELSE nuclear_tick_fix(cleaned)

FinalCleanups(text) ==
    NuclearIfNoTick(enforce_telegram_limits_strict(
                        enforce_correct_answer_format(
                            optimize_for_poll(clean_question_format(text)))))

-----------------------------------------------------------------------------
(* Bounds and inputs *)

MaxBlocks == 3     \* blocks in one LLM reply or uploaded file
MaxAmount == 2     \* requested amount of /ai
MaxN == 8          \* argument of balanced_shuffled_letters checked on its own

SeqsUpTo(S, k) == UNION {[1..m -> S] : m \in 1..k}

\* A block of an LLM reply: its option letters in order and the position of
\* the option line that carries the answer mark (0: none).
Shapes ==
    { [letters |-> <<"A", "B", "C", "D">>, mark |-> 0],
      [letters |-> <<"A", "B", "C", "D">>, mark |-> 2],
      [letters |-> <<"A", "B", "C">>, mark |-> 1],
      [letters |-> <<"A", "A", "B", "C">>, mark |-> 0],
      [letters |-> <<"A", "B", "C", "D", "A">>, mark |-> 0] }

\* numbers the first block of a reply may carry
Starts == {1, 4}

\* the question text of the k-th block of a reply: "q" and a tag naming k
Tag(k) ==
    <<"q", <<"u", "v", "w", "x", "y", "z", "k", "l", "m", "p", "r", "s", "g", "h", "i",
             "j">>[k]>>

\* "(L) oI" with " TICK" appended when marked
UpperOptionLine(letter, i, marked) ==
    <<"(", letter, ")", SP, "o", Digit(i)>> \o (IF marked THEN <<SP, TICK>> ELSE <<>>)

\* the k-th block of a reply in the format the /ai prompts ask for
UpperBlock(shape, number, k) ==
    Join(<<Numeral(number) \o <<".", SP>> \o Tag(k)>>
            \o [i \in 1..Len(shape.letters) |->
                   UpperOptionLine(shape.letters[i], i, shape.mark = i)]
            \o <<ExPrefix \o <<SP, "e">>>>,
         <<NL>>)

UpperReply(shapes, start) ==
    Join([k \in 1..Len(shapes) |-> UpperBlock(shapes[k], start + k - 1, k)], <<NL>>)

\* the shapes whose letters are the first three or four of A, B, C, D
CoreShapes == {s \in Shapes : s.letters \in {<<"A", "B", "C", "D">>, <<"A", "B", "C">>}}

\* the replies: one block of any shape, or up to MaxBlocks blocks of the core
\* shapes
AiReplies ==
    {UpperReply(<<s>>, start) : s \in Shapes, start \in Starts}
      \cup {UpperReply(shapes, start) :
               shapes \in SeqsUpTo(CoreShapes, MaxBlocks), start \in Starts}

\* a reply, or a file, that opens with a line of prose before its first
\* question
PreambleReplies ==
    {<<"h", "i", ":", NL>> \o UpperReply(<<CHOOSE s \in Shapes : s.mark = 2>>, 1)}

\* a reply whose marked option is longer than the option budget of
\* shorten_mcqs
LongMarkedReply ==
    Join(<<<<"1", ".", SP, "q", "u">>,
           <<"(", "A", ")", SP, "o", "1">>,
           <<"(", "B", ")", SP>> \o Rep("o", SM_OPTION_LIMIT) \o <<SP, TICK>>,
           <<"(", "C", ")", SP, "o", "3">>,
           <<"(", "D", ")", SP, "o", "4">>,
           ExPrefix \o <<SP, "e">>>>,
         <<NL>>)

\* a block of an uploaded file whose texts are Gujarati
GujaratiBlock(number, k) ==
    Join(<<Numeral(number) \o <<".", SP, GU>> \o Tag(k)>>
            \o [i \in 1..4 |-> <<"(", LetterOrder[i], ")", SP, GU, "o", Digit(i)>>]
            \o <<ExPrefix \o <<SP, GU, "e">>>>,
         <<NL>>)

\* a file of one block more than a part holds: a full block first and last,
\* bare question lines between them
LongFile ==
    Join([k \in 1..(BI_CHUNK + 1) |->
            IF k \in {1, BI_CHUNK + 1}
            THEN UpperBlock(CHOOSE s \in Shapes : s.mark = 2, k, k)
            ELSE Numeral(k) \o <<".", SP>> \o Tag(k)],
         <<NL>>)

\* uploaded files of /bi: the replies above, the empty file, files with a
\* Gujarati block and the long file
BiFiles ==
    AiReplies
      \cup {<<>>,
            GujaratiBlock(1, 1),
            Join(<<GujaratiBlock(1, 1), UpperBlock(CHOOSE s \in Shapes : s.mark = 2, 2, 2)>>,
                 <<NL>>),
            LongFile}

\* what the translation calls of one block return: <<>> stands for a failed
\* call or an empty line
Translated == {<<>>, <<"t">>}
Translations ==
    {[q |-> tq, o |-> [k \in 1..5 |-> to], e |-> te] :
        tq \in Translated, to \in Translated, te \in Translated}
NoTranslation == [q |-> <<>>, o |-> [k \in 1..5 |-> <<>>], e |-> <<>>]

\* process_block calls the translator only for a text with Gujarati letters
\* and, in a grammar block, for a text that is not mostly English
CallsTranslator(block) ==
    HasGujarati(block) \/ detect_mode_for_block(block) = "english_grammar"

request == <<cmd, raw, amount, bilingual_flag, max_len_arg>>
shuffle == <<n, counts, pool>>
work == <<blocks, mcq_structs, parsed_qs, converted_blocks>>
output == <<final_text, out_parts>>
applied == <<once, twice>>
ocrq == <<uploads, queue, disk, item_idx, sent_items>>
cleanup == <<saved, saved_dir, awaiting_cleanup_confirm, asked, last_text>>
imgs == <<awaiting_images, collected_images, image_files, img_run>>
gem == <<g_model, g_attempt, g_log, g_result>>
ext == <<cleanup, imgs, gem>>

\* What a handler hands to safe_reply / reply_text / reply_document: a text
\* message, or a document with its caption. what names the message, count is
\* the number the message reports, body the content of the file.
TextMsg(what) == [kind |-> "text", what |-> what, count |-> 0, body |-> <<>>]
DocMsg(what, count, body) == [kind |-> "document", what |-> what, count |-> count, body |-> body]

-----------------------------------------------------------------------------
(* ai_handler.py: balanced_shuffled_letters, one action per statement group *)

\* lines 50-57: base, remainder, random.shuffle(letters), counts
BSL_Counts ==
    /\ pc = "bsl_start"
    /\ \E letters \in Perms4 : counts' = BSLCounts(n, letters)
    /\ pool' = <<>>
    /\ pc' = "bsl_shuffle"
    /\ UNCHANGED <<ext, request, tr_log, outbox, ocrq, n, work, output, applied>>

\* lines 59-62: random.shuffle(pool) yields any arrangement of the pool; the
\* arrangement is drawn one position at a time
BSL_Pick ==
    /\ pc = "bsl_shuffle"
    /\ \E l \in Upper :
          /\ counts[l] > 0
          /\ counts' = [counts EXCEPT ![l] = @ - 1]
          /\ pool' = Append(pool, l)
    /\ UNCHANGED <<ext, pc, request, tr_log, outbox, ocrq, n, work, output, applied>>

\* line 63: return pool
BSL_Return ==
    /\ pc = "bsl_shuffle"
    /\ \A l \in Upper : counts[l] = 0
    /\ pc' = "bsl_done"
    /\ UNCHANGED <<ext, request, tr_log, outbox, ocrq, shuffle, work, output, applied>>

NoCounts == [l \in Upper |-> 0]

\* the state before a handler has done anything
\* nothing saved, no confirmation pending
ExtIdle ==
    /\ saved = {} /\ saved_dir = FALSE /\ awaiting_cleanup_confirm = FALSE
    /\ asked = FALSE /\ last_text = <<>>
    /\ awaiting_images = FALSE /\ collected_images = <<>> /\ image_files = {}
    /\ img_run = <<>>
    /\ g_model = 0 /\ g_attempt = 0 /\ g_log = <<>> /\ g_result = <<>>

Idle ==
    /\ ExtIdle
    /\ n = 0 /\ counts = NoCounts /\ pool = <<>>
    /\ blocks = <<>> /\ mcq_structs = <<>> /\ parsed_qs = <<>> /\ converted_blocks = <<>>
    /\ final_text = <<>> /\ out_parts = <<>>
    /\ once = <<>> /\ twice = <<>>
    /\ tr_log = <<>> /\ outbox = <<>> /\ uploads = <<>> /\ queue = <<>> /\ disk = {} /\ item_idx = 0 /\ sent_items = {}

InitBSL ==
    /\ ExtIdle
    /\ pc = "bsl_start"
    /\ cmd = "balanced_shuffled_letters"
    /\ n \in 0..MaxN
    /\ counts = NoCounts /\ pool = <<>>
    /\ raw = <<>> /\ amount = 0 /\ bilingual_flag = FALSE /\ max_len_arg = 0
    /\ blocks = <<>> /\ mcq_structs = <<>> /\ parsed_qs = <<>> /\ converted_blocks = <<>>
    /\ final_text = <<>> /\ out_parts = <<>>
    /\ once = <<>> /\ twice = <<>>
    /\ tr_log = <<>> /\ outbox = <<>> /\ uploads = <<>> /\ queue = <<>> /\ disk = {} /\ item_idx = 0 /\ sent_items = {}

NextBSL == BSL_Counts \/ BSL_Pick \/ BSL_Return

SpecBSL == InitBSL /\ [][NextBSL]_vars

-----------------------------------------------------------------------------
(* ai_handler.py: ai_command *)

RECURSIVE Accepted_Prepending(_, _)
\* every accepted struct put in front of the ones accepted before it
Accepted_Prepending(bs, bi) ==
    IF bs = <<>> THEN <<>>
    ELSE Accepted_Prepending(Tail(bs), bi) \o shorten_and_compact(bs[1], bi)

\* a loop that stops at the first block shorten_and_compact rejects
RECURSIVE Accepted_StopAtInvalid(_, _)
Accepted_StopAtInvalid(bs, bi) ==
    IF bs = <<>> \/ shorten_and_compact(bs[1], bi) = <<>> THEN <<>>
    ELSE shorten_and_compact(bs[1], bi) \o Accepted_StopAtInvalid(Tail(bs), bi)

\* the structs of the blocks that shorten_and_compact accepts, in block order
RECURSIVE Accepted(_, _)
Accepted(bs, bi) ==
    IF bs = <<>> THEN <<>>
    ELSE shorten_and_compact(bs[1], bi) \o Accepted(Tail(bs), bi)

\* lines 364-367: raw = raw.strip(); blocks = split_mcqs(raw)
AiSplit ==
    /\ cmd = "ai" /\ pc = "ai_reply"
    /\ blocks' = split_mcqs(Strip(raw))
    /\ pc' = "ai_parse"
    /\ UNCHANGED <<ext, request, tr_log, outbox, ocrq, shuffle, mcq_structs, parsed_qs, converted_blocks, output, applied>>

\* lines 369-381: parse every block, report an error when nothing was
\* parsed, truncate to the requested amount
AiParse ==
    /\ cmd = "ai" /\ pc = "ai_parse"
    /\ LET structs == Accepted(blocks, bilingual_flag) IN
       IF structs = <<>>
       THEN /\ pc' = "ai_error"
            /\ outbox' = Append(outbox, TextMsg("could_not_be_parsed"))
            /\ UNCHANGED <<mcq_structs, n>>
       ELSE /\ mcq_structs' = Take(structs, amount)
            /\ n' = Len(Take(structs, amount))
            /\ pc' = "bsl_start"
            /\ UNCHANGED outbox
    /\ UNCHANGED <<ext, request, tr_log, ocrq, counts, pool, blocks, parsed_qs, converted_blocks, output, applied>>

\* line 384: final_text = assign_ticks_and_build(mcq_structs)
AiBuild ==
    /\ cmd = "ai" /\ pc = "bsl_done"
    /\ final_text' = assign_ticks_and_build(mcq_structs, pool)
    /\ pc' = "ai_built"
    /\ UNCHANGED <<ext, request, tr_log, outbox, ocrq, shuffle, work, out_parts, applied>>

\* lines 387-403: the helper cleanups, the file, the reply to the user
AiSend ==
    /\ cmd = "ai" /\ pc = "ai_built"
    /\ LET cleaned == FinalCleanups(final_text)
       IN final_text' = cleaned
    /\ LET total == Len(mcq_structs)
       IN outbox' = Append(outbox, DocMsg("generated", total, final_text'))
    /\ pc' = "ai_sent"
    /\ UNCHANGED <<ext, request, tr_log, ocrq, shuffle, work, out_parts, applied>>

-----------------------------------------------------------------------------
(* ai_handler_3.py: ai_command *)

\* line 264, and ai_handler1.py:150, pdf_handler.py:247:
\* len(re.findall(r'\d+\.', text)): one match for every "." that follows a digit
CountNumberDots(text) ==
    Cardinality({i \in 2..Len(text) : text[i] = "." /\ text[i - 1] \in Digits})

\* lines 220-223: the fence is removed, the reply stripped and compacted
Ai3Compact ==
    /\ cmd = "ai3" /\ pc = "ai3_reply"
    /\ final_text' = shorten_mcqs(AI3_StripFence(raw))
    /\ pc' = "ai3_compact"
    /\ UNCHANGED <<ext, request, tr_log, outbox, ocrq, shuffle, work, out_parts, applied>>

\* lines 226-247: the detected answer of every block is marked
Ai3Fix ==
    /\ cmd = "ai3" /\ pc = "ai3_compact"
    /\ final_text' = AI3_FixBlocks(final_text)
    /\ pc' = "ai3_fixed"
    /\ UNCHANGED <<ext, request, tr_log, outbox, ocrq, shuffle, work, out_parts, applied>>

\* lines 252-276: the helper cleanups, the count, the file, the reply to the
\* user
Ai3Send ==
    /\ cmd = "ai3" /\ pc = "ai3_fixed"
    /\ LET compact_fixed == FinalCleanups(final_text)
       IN final_text' = compact_fixed
    /\ LET total == CountNumberDots(final_text')
       IN outbox' = Append(outbox, DocMsg("generated_compact", total, final_text'))
    /\ pc' = "ai3_sent"
    /\ UNCHANGED <<ext, request, tr_log, ocrq, shuffle, work, out_parts, applied>>

-----------------------------------------------------------------------------
(* bot.py: the text of one uploaded file in doneocr_handler *)

\* the caption-less text written when nothing was parsed and the reply was
\* empty: "No questions parsed from <name>."
NO_QUESTIONS == <<"NO_QUESTIONS">>

\* lines 397-398: merged = the reply, stripped; parsed = parse_mcq_text(merged)
OcrParse ==
    /\ cmd = "ocr" /\ pc = "ocr_reply"
    /\ parsed_qs' = parse_mcq_text(Strip(raw))
    /\ pc' = "ocr_parsed"
    /\ UNCHANGED <<ext, request, tr_log, outbox, ocrq, shuffle, blocks, mcq_structs, converted_blocks, output, applied>>

\* lines 401-423: the formatted text, or the raw text when nothing was
\* parsed, is written and sent as a document; safe_send_document returns sent
OcrSend ==
    /\ cmd = "ocr" /\ pc = "ocr_parsed"
    /\ LET formatted == IF parsed_qs = <<>>
                        THEN (IF Strip(raw) # <<>> THEN Strip(raw) ELSE NO_QUESTIONS)
                        ELSE renumber_and_format(parsed_qs)
       IN /\ final_text' = formatted
          /\ \E sent \in BOOLEAN :
                outbox' = Append(outbox, IF sent THEN DocMsg("mcqs_for", 0, formatted)
                                         ELSE TextMsg("failed_to_send"))
    /\ pc' = "ocr_sent"
    /\ UNCHANGED <<ext, request, tr_log, ocrq, shuffle, work, out_parts, applied>>

-----------------------------------------------------------------------------
(* bi_handler.py: bi_command *)

\* lines 406-410: the blocks of the uploaded text
BiSplit ==
    /\ cmd = "bi" /\ pc = "bi_file"
    /\ blocks' = split_mcq_blocks(raw)
    /\ pc' = IF split_mcq_blocks(raw) = <<>> THEN "bi_error" ELSE "bi_blocks"
    /\ outbox' = IF split_mcq_blocks(raw) = <<>>
                 THEN Append(outbox, TextMsg("no_mcqs_found")) ELSE outbox
    /\ UNCHANGED <<ext, request, tr_log, ocrq, shuffle, mcq_structs, parsed_qs, converted_blocks, output, applied>>

\* lines 414-434: one turn of the block loop; the translation calls of the
\* block return what tr says. When the processing of the block raises
\* (raised = TRUE) the except branch of lines 432-434 keeps the block as it
\* was and the loop goes on.
BiBlock ==
    /\ cmd = "bi" /\ pc = "bi_blocks"
    /\ Len(converted_blocks) < Len(blocks)
    /\ LET i == Len(converted_blocks) + 1 IN
       \E raised \in BOOLEAN :
          IF raised
          THEN /\ converted_blocks' = Append(converted_blocks, BI_Sanitize(blocks[i]))
               /\ tr_log' = Append(tr_log, NoTranslation)
          ELSE \E tr \in IF CallsTranslator(blocks[i]) THEN Translations ELSE {NoTranslation} :
                  /\ converted_blocks' = Append(converted_blocks, BI_Convert(blocks[i], i, tr))
                  /\ tr_log' = Append(tr_log, tr)
    /\ UNCHANGED <<ext, pc, request, outbox, ocrq, shuffle, blocks, mcq_structs, parsed_qs, output, applied>>

\* a part loop that sends every part file as soon as it is written
BiWritePart_SendsEachPart ==
    /\ cmd = "bi" /\ pc = "bi_blocks"
    /\ Len(converted_blocks) = Len(blocks)
    /\ LET parts == chunk_list(converted_blocks, BI_CHUNK)
           p == Len(out_parts) + 1
           cleaned == FinalCleanups(Join(parts[p], <<NL, NL>>))
       IN /\ p <= Len(parts)
          /\ out_parts' = Append(out_parts, cleaned)
          /\ outbox' = Append(outbox, DocMsg("converted_part", 0, cleaned))
          /\ pc' = IF p = Len(parts) THEN "bi_sent" ELSE pc
    /\ UNCHANGED <<ext, request, tr_log, ocrq, shuffle, work, final_text, applied>>

\* lines 438-458: one turn of the part loop: the next 15 blocks are joined,
\* cleaned up and written to a temporary file; the write is outside the try
\* block, so when it raises (written = FALSE) the handler ends there
BiWritePart ==
    /\ cmd = "bi" /\ pc = "bi_blocks"
    /\ Len(converted_blocks) = Len(blocks)
    /\ LET parts == chunk_list(converted_blocks, BI_CHUNK)
           p == Len(out_parts) + 1
       IN /\ p <= Len(parts)
          /\ \E written \in BOOLEAN :
                IF written
                THEN /\ out_parts' = Append(out_parts,
                                            FinalCleanups(Join(parts[p], <<NL, NL>>)))
                     /\ pc' = IF p = Len(parts) THEN "bi_written" ELSE pc
                ELSE /\ pc' = "bi_aborted"
                     /\ UNCHANGED out_parts
    /\ UNCHANGED <<ext, request, tr_log, outbox, ocrq, shuffle, work, final_text, applied>>

\* lines 461-467: one turn of the send loop: the next part file is handed to
\* safe_reply
BiReply ==
    /\ cmd = "bi" /\ pc = "bi_written"
    /\ LET k == Len(outbox) + 1 IN
       /\ k <= Len(out_parts)
       /\ outbox' = Append(outbox,
                           DocMsg(IF Len(out_parts) = 1 THEN "converted_file"
                                  ELSE "converted_part", 0, out_parts[k]))
       /\ pc' = IF k = Len(out_parts) THEN "bi_sent" ELSE pc
    /\ UNCHANGED <<ext, request, tr_log, ocrq, shuffle, work, output, applied>>

-----------------------------------------------------------------------------
(* The text passes of helpers.py and ai_handler.py applied on their own *)

HelperNames ==
    {"optimize_for_poll", "enforce_telegram_limits", "normalize_option_line",
     "enforce_correct_answer_format"}

\* the pass named f applied to text
Pass(f, text, ml) ==
    CASE f = "optimize_for_poll" -> optimize_for_poll(text)
      [] f = "enforce_telegram_limits" -> enforce_telegram_limits(text)
      [] f = "normalize_option_line" -> normalize_option_line(text, ml)
      [] f = "enforce_correct_answer_format" -> enforce_correct_answer_format(text)

\* s repeated k times
Repeated(s, k) == [i \in 1..(k * Len(s)) |-> s[((i - 1) % Len(s)) + 1]]

\* a question in the format of the OCR prompts: lower-case letters, the mark
\* on option number mark
LowerBlock(number, k, mark) ==
    Join(<<Numeral(number) \o <<".", SP>> \o Tag(k)>>
            \o [i \in 1..4 |->
                  <<LowerOrder[i], ")", SP, "o", Digit(i)>>
                     \o (IF mark = i THEN <<SP, TICK>> ELSE <<>>)],
         <<NL>>)

LowerTexts ==
    {LowerBlock(1, 1, m) : m \in 1..4}
      \cup {Join(<<LowerBlock(1, 1, m1), LowerBlock(2, 2, m2)>>, <<NL, NL>>) :
               m1 \in 1..4, m2 \in 1..4}

\* lines around the budgets of the two length passes
LimitLines ==
    { <<"1", ".", SP, "q", "u">>,
      <<"1", ".", SP>> \o Rep("x", ETL_QUESTION_LIMIT - 4) \o <<SP, "y">>,
      <<"1", ".", SP>> \o Repeated(Rep("x", 99) \o <<".", SP>>, OFP_QUESTION_LIMIT \div 100 + 1),
      ExPrefix \o <<SP, "e">>,
      ExPrefix \o <<SP>> \o Repeated(Rep("w", 9) \o <<".">>, OFP_EX_LIMIT \div 10 + 1),
      ExPrefix \o <<SP>> \o Rep("w", ETL_EX_LIMIT + 5),
      ExPrefix \o <<SP>> \o Rep("w", OFP_EX_SPACE_MIN + 10) \o <<SP>>
         \o Rep("v", OFP_EX_LIMIT - OFP_EX_SPACE_MIN),
      <<"a", ")", SP, "o", "1", SP, TICK>>,
      <<"b", ")", SP>> \o Rep("o", ETL_OPTION_LIMIT + 20),
      <<"c", ")", SP>> \o Repeated(<<"o", "o", "o", SP>>, OFP_OPTION_LIMIT \div 4 + 2)
         \o <<TICK>> }

LimitTexts ==
    LimitLines \cup {Join(<<l1, l2>>, <<NL>>) : l1 \in LimitLines, l2 \in LimitLines}

\* option lines around the budgets normalize_option_line is called with
OptionLines ==
    UNION { { <<"(", "A", ")", SP>> \o Rep("o", ml - 5),
              <<"(", "A", ")", SP>> \o Rep("o", ml - 4),
              <<"(", "A", ")", SP>> \o Rep("o", ml - 3),
              <<"(", "A", ")", SP>> \o Rep("o", ml + 20),
              <<"(", "A", ")", SP, SP>> \o Rep("o", ml - 9) \o <<SP, SP>> \o Rep("o", ml),
              <<"(", "A", ")", SP>> \o Rep("o", ml - 8) \o <<SP>> \o Rep("o", ml),
              <<SP, "(", "A", ")", SP>> \o Repeated(<<"o", "o", SP, SP>>, ml) }
            : ml \in {SAC_OPTION_LIMIT, SAC_OPTION_LIMIT_BILINGUAL} }

HelperInputs(f) ==
    CASE f = "optimize_for_poll" -> LimitTexts
      [] f = "enforce_telegram_limits" -> LimitTexts
      [] f = "normalize_option_line" -> OptionLines
      [] f = "enforce_correct_answer_format" -> LowerTexts

\* the pass applied to the input
HelperOnce ==
    /\ cmd \in HelperNames /\ pc = "helper_input"
    /\ once' = Pass(cmd, raw, max_len_arg)
    /\ pc' = "helper_once"
    /\ UNCHANGED <<ext, request, tr_log, outbox, ocrq, shuffle, work, output, twice>>

\* the pass applied to its own result
HelperTwice ==
    /\ cmd \in HelperNames /\ pc = "helper_once"
    /\ twice' = Pass(cmd, once, max_len_arg)
    /\ pc' = "helper_twice"
    /\ UNCHANGED <<ext, request, tr_log, outbox, ocrq, shuffle, work, output, once>>

-----------------------------------------------------------------------------
(* ai_handler_3.py: detect_correct_answer applied on its own *)

\* one block of a reply after shorten_mcqs, with the options "red sky",
\* "blue sea", "red sea" and "dry", the mark on option number mark (0: none)
\* and the explanation ex
DetectBlock(mark, ex) ==
    LET texts == << <<"r", "e", "d", SP, "s", "k", "y">>,
                    <<"b", "l", "u", "e", SP, "s", "e", "a">>,
                    <<"r", "e", "d", SP, "s", "e", "a">>,
                    <<"d", "r", "y">> >>
    IN Join(<<<<"1", ".", SP, "q", "u">>>>
               \o [i \in 1..4 |-> <<"(", LetterOrder[i], ")", SP>> \o texts[i]
                                     \o (IF mark = i THEN <<SP, TICK>> ELSE <<>>)]
               \o <<ExPrefix \o <<SP>> \o ex>>,
            <<NL>>)

\* explanations without a declaration: the words of one option, a word that
\* two options share, a word of no option
PlainExplanations ==
    { <<"t", "h", "e", SP, "s", "e", "a", SP, "i", "s", SP, "b", "l", "u", "e">>,
      <<"r", "e", "d">>,
      <<"s", "e", "a">>,
      <<"w", "e", "t">> }

\* explanations that declare option C, in the wordings and letter cases of
\* the phrase, followed by the words of option B
Declarations ==
    { <<"C", "o", "r", "r", "e", "c", "t", SP, "a", "n", "s", "w", "e", "r", SP, "i", "s",
        SP, "C">>,
      <<"c", "o", "r", "r", "e", "c", "t", SP, "a", "n", "s", "w", "e", "r", ":", SP, "C">>,
      <<"C", "O", "R", "R", "E", "C", "T", SP, "A", "N", "S", "W", "E", "R", SP, "I", "S",
        SP, "C">>,
      <<"c", "o", "r", "r", "e", "c", "t", ":", SP, "C">> }

DeclaringExplanations ==
    {d \o <<",", SP, "b", "l", "u", "e", SP, "s", "e", "a">> : d \in Declarations}

DetectBlocks ==
    {DetectBlock(0, ex) : ex \in PlainExplanations \cup DeclaringExplanations}
       \cup {DetectBlock(1, ex) : ex \in DeclaringExplanations}

\* lines 233-236 of ai_command: the detector is called on a block
DetectAnswer ==
    /\ cmd = "detect_correct_answer" /\ pc = "detect_input"
    /\ once' = detect_correct_answer(raw)
    /\ pc' = "detect_done"
    /\ UNCHANGED <<ext, request, tr_log, outbox, ocrq, shuffle, work, output, twice>>

-----------------------------------------------------------------------------
(* The handlers and passes together *)

-----------------------------------------------------------------------------
(* ai_handler1.py: ai_command *)

\* the position after the opening fence that starts at i: the fence, the tag
\* "markdown" or "text" when it follows, the white space after it
AH1_OpenEnd(s, i) ==
    LET j == i + 3
        k == IF WordAt(s, j, <<"m", "a", "r", "k", "d", "o", "w", "n">>) THEN j + 8
             ELSE IF WordAt(s, j, <<"t", "e", "x", "t">>) THEN j + 4
             ELSE j
    IN SkipWS(s, k)

\* the position after the match of the pattern of line 140 that starts at i,
\* 0 when none starts there: a fence at the start of a line matches with its
\* tag and the white space after it, a fence at the end of a line matches
\* with the white space before it
AH1_MatchEnd(s, i) ==
    LET lineStart == i = 1 \/ s[i - 1] = NL
        k == SkipWS(s, i)
    IN IF lineStart /\ WordAt(s, i, Fence) THEN AH1_OpenEnd(s, i)
       ELSE IF WordAt(s, k, Fence) /\ (k + 3 > Len(s) \/ s[k + 3] = NL) THEN k + 3
       ELSE 0

RECURSIVE AH1_Sub(_, _)
\* line 140, re.sub(r'^FENCE(markdown|text|)?\s*|\s*FENCE$', '', result,
\* flags=re.MULTILINE | re.DOTALL) from position i on: the leftmost match is
\* removed, then the matches after it
AH1_Sub(s, i) ==
    LET starts == {p \in i..Len(s) : AH1_MatchEnd(s, p) # 0} IN
    IF starts = {} THEN SubSeq(s, i, Len(s))
    ELSE LET p == CHOOSE q \in starts : \A r \in starts : q <= r
         IN SubSeq(s, i, p - 1) \o AH1_Sub(s, AH1_MatchEnd(s, p))

\* line 140 with its strip()
AH1_StripFence(result) == Strip(AH1_Sub(result, 1))

\* line 142: a cleaned reply shorter than this is reported as empty
AH1_MIN_LEN == 50

\* lines 140-144: the fence is removed; an empty or short reply is reported
Ai1Strip ==
    /\ cmd = "ai1" /\ pc = "ai1_reply"
    /\ LET clean_text == AH1_StripFence(raw) IN
       IF Len(clean_text) < AH1_MIN_LEN
       THEN /\ outbox' = Append(outbox, TextMsg("empty_response"))
            /\ pc' = "ai1_error"
            /\ UNCHANGED final_text
       ELSE /\ final_text' = clean_text
            /\ pc' = "ai1_clean"
            /\ UNCHANGED outbox
    /\ UNCHANGED <<ext, request, tr_log, ocrq, shuffle, work, out_parts, applied>>

\* lines 147-170: clean_question_format, the count, the file and the reply
Ai1Send ==
    /\ cmd = "ai1" /\ pc = "ai1_clean"
    /\ LET cleaned_result == clean_question_format(final_text)
       IN final_text' = cleaned_result
    /\ LET question_count == CountNumberDots(final_text')
       IN outbox' = Append(outbox, DocMsg("ai_generated", question_count, final_text'))
    /\ pc' = "ai1_sent"
    /\ UNCHANGED <<ext, request, tr_log, ocrq, shuffle, work, out_parts, applied>>

-----------------------------------------------------------------------------
(* bot.py: the OCR session: /ocr, the uploads, /doneocr, /resumeocr.  The
   handlers run one at a time (the application is built without concurrent
   updates), so a command is taken only when no handler is running.  The text
   of the document sent for an item is the one OcrParse and OcrSend compute
   for its reply. *)

MaxQueue == 3      \* items in the saved queue and the upload list together

\* the paths upload_handler gives: "<second>_<name>" under the user's
\* directory; two photos received in the same second get the same path
Paths == {"p1", "p2", "p3"}

\* the paths given in earlier seconds: those of the saved queue and of the
\* uploads before the last one
EarlierPaths ==
    {queue[i].path : i \in 1..Len(queue)} \cup {uploads[i] : i \in 1..(Len(uploads) - 1)}

InitOCR ==
    /\ Idle
    /\ pc = "idle" /\ cmd = "/start"
    /\ raw = <<>> /\ amount = 0 /\ bilingual_flag = FALSE /\ max_len_arg = 0

\* lines 277-280, ocr_start_handler
OcrStart ==
    /\ pc = "idle"
    /\ cmd' = "/ocr"
    /\ uploads' = <<>>
    /\ outbox' = <<TextMsg("session_started")>>
    /\ UNCHANGED <<ext, pc, raw, amount, bilingual_flag, max_len_arg, shuffle, work, output,
                   applied, tr_log, queue, disk, item_idx, sent_items>>

\* lines 283-321, upload_handler: the file is downloaded to its path; a file
\* that is missing or empty after the download is removed and not listed
\* (stored = FALSE). The path carries the second of the upload and the name
\* of the file, so it differs from the paths given in earlier seconds; it can
\* be the path of the upload just before.
Upload ==
    /\ pc = "idle"
    /\ Len(queue) + Len(uploads) < MaxQueue
    /\ cmd' = "upload"
    /\ \E target \in Paths \ EarlierPaths : \E stored \in BOOLEAN :
          IF stored
          THEN /\ disk' = disk \cup {target}
               /\ uploads' = Append(uploads, target)
               /\ outbox' = <<TextMsg("stored")>>
          ELSE /\ disk' = disk \ {target}
               /\ outbox' = <<TextMsg("failed_to_download")>>
               /\ UNCHANGED uploads
    /\ UNCHANGED <<ext, pc, raw, amount, bilingual_flag, max_len_arg, shuffle, work, output,
                   applied, tr_log, queue, item_idx, sent_items>>

\* the command /doneocr arrives and doneocr_handler is called
DoneOcrCommand ==
    /\ pc = "idle"
    /\ cmd' = "/doneocr"
    /\ pc' = "doneocr_enter"
    /\ outbox' = <<>>
    /\ UNCHANGED <<ext, raw, amount, bilingual_flag, max_len_arg, shuffle, work, output,
                   applied, tr_log, ocrq>>

\* lines 436-446, resume_handler: without a pending or processing item it
\* reports that; otherwise it empties the upload list and calls
\* doneocr_handler
Resume ==
    /\ pc = "idle"
    /\ cmd' = "/resumeocr"
    /\ IF \E i \in 1..Len(queue) : queue[i].status \in {"pending", "processing"}
       THEN /\ uploads' = <<>>
            /\ outbox' = <<TextMsg("resuming")>>
            /\ pc' = "doneocr_enter"
       ELSE /\ outbox' = <<TextMsg("no_saved_work")>>
            /\ UNCHANGED <<pc, uploads>>
    /\ UNCHANGED <<ext, raw, amount, bilingual_flag, max_len_arg, shuffle, work, output,
                   applied, tr_log, queue, disk, item_idx, sent_items>>

\* lines 328-343, doneocr_handler: without uploads it reports that and
\* returns; otherwise every upload is appended to the saved queue as pending
\* and the upload list is emptied
DoneOcrEnter ==
    /\ pc = "doneocr_enter"
    /\ IF uploads = <<>>
       THEN /\ outbox' = Append(outbox, TextMsg("no_files_uploaded"))
            /\ pc' = "idle"
            /\ UNCHANGED <<uploads, queue, item_idx>>
       ELSE /\ outbox' = Append(outbox, TextMsg("processing_files"))
            /\ queue' = queue \o [i \in 1..Len(uploads) |->
                                    [path |-> uploads[i], status |-> "pending"]]
            /\ uploads' = <<>>
            /\ item_idx' = 1
            /\ pc' = "ocr_loop"
    /\ UNCHANGED <<ext, cmd, raw, amount, bilingual_flag, max_len_arg, shuffle, work, output,
                   applied, tr_log, disk, sent_items>>

\* lines 346-354 and 432-433: the loop over the queue: a done item is
\* skipped, any other item is marked processing; after the last item the
\* handler reports the end
OcrNextItem ==
    /\ pc = "ocr_loop"
    /\ IF item_idx > Len(queue)
       THEN /\ outbox' = Append(outbox, TextMsg("all_done"))
            /\ item_idx' = 0
            /\ pc' = "idle"
            /\ UNCHANGED queue
       ELSE IF queue[item_idx].status = "done"
       THEN /\ item_idx' = item_idx + 1
            /\ UNCHANGED <<pc, queue, outbox>>
       ELSE /\ queue' = [queue EXCEPT ![item_idx].status = "processing"]
            /\ outbox' = Append(outbox, TextMsg("processing_item"))
            /\ pc' = "ocr_item"
            /\ UNCHANGED item_idx
    /\ UNCHANGED <<ext, cmd, raw, amount, bilingual_flag, max_len_arg, shuffle, work, output,
                   applied, tr_log, uploads, disk, sent_items>>

\* lines 356-397 and 425-430: the file of the item goes to Gemini. Without a
\* response the failure is reported and the handler returns, the item left
\* as processing; an exception (always, when the file is not there) makes
\* the item an error and the handler returns
OcrGemini ==
    /\ pc = "ocr_item"
    /\ \E outcome \in IF queue[item_idx].path \in disk
                      THEN {"text", "no_response", "raised"} ELSE {"raised"} :
          CASE outcome = "text" ->
                  /\ pc' = "ocr_send"
                  /\ UNCHANGED <<queue, outbox, item_idx>>
            [] outcome = "no_response" ->
                  /\ outbox' = Append(outbox, TextMsg("gemini_failed"))
                  /\ item_idx' = 0
                  /\ pc' = "idle"
                  /\ UNCHANGED queue
            [] outcome = "raised" ->
                  /\ queue' = [queue EXCEPT ![item_idx].status = "error"]
                  /\ outbox' = Append(outbox, TextMsg("error_processing"))
                  /\ item_idx' = 0
                  /\ pc' = "idle"
    /\ UNCHANGED <<ext, cmd, raw, amount, bilingual_flag, max_len_arg, shuffle, work, output,
                   applied, tr_log, uploads, disk, sent_items>>

\* lines 399-423: the output is written and sent; when safe_send_document
\* returns True the item is done and its input file is deleted, otherwise the
\* item is an error; the loop goes on
OcrDeliver ==
    /\ pc = "ocr_send"
    /\ saved' = saved \cup {queue[item_idx].path}
    /\ saved_dir' = TRUE
    /\ \E sent \in BOOLEAN :
          IF sent
          THEN /\ outbox' = Append(outbox, DocMsg("mcqs_for", 0, <<>>))
               /\ sent_items' = sent_items \cup {item_idx}
               /\ queue' = [queue EXCEPT ![item_idx].status = "done"]
               /\ disk' = disk \ {queue[item_idx].path}
          ELSE /\ queue' = [queue EXCEPT ![item_idx].status = "error"]
               /\ outbox' = Append(outbox, TextMsg("failed_to_send"))
               /\ UNCHANGED <<disk, sent_items>>
    /\ item_idx' = item_idx + 1
    /\ pc' = "ocr_loop"
    /\ UNCHANGED <<awaiting_cleanup_confirm, asked, last_text, imgs, gem, cmd, raw, amount, bilingual_flag, max_len_arg, shuffle, work, output,
                   applied, tr_log, uploads>>

\* the text messages of the user
YES == <<"y", "e", "s">>
TextMessages ==
    {YES, <<SP, "Y", "E", "S", NL>>, <<"n", "o">>, <<"y", "e", "s", "s">>}

\* lines 464-472, cleanup_handler: without the directory of saved outputs
\* there is nothing to clean up; otherwise the confirmation is asked for
Cleanup ==
    /\ pc = "idle"
    /\ cmd' = "/cleanup"
    /\ IF ~saved_dir
       THEN /\ outbox' = <<TextMsg("nothing_to_cleanup")>>
            /\ UNCHANGED <<awaiting_cleanup_confirm, asked>>
       ELSE /\ outbox' = <<TextMsg("are_you_sure")>>
            /\ awaiting_cleanup_confirm' = TRUE
            /\ asked' = TRUE
    /\ UNCHANGED <<pc, raw, amount, bilingual_flag, max_len_arg, shuffle, work, output,
                   applied, tr_log, ocrq, saved, saved_dir, last_text, imgs, gem>>

\* confirm_text_handler taking every text for the confirmation
ConfirmText_AnyTextConfirms ==
    /\ pc = "idle"
    /\ cmd' = "text"
    /\ asked' = FALSE
    /\ \E text \in TextMessages :
          /\ last_text' = text
          /\ IF ~awaiting_cleanup_confirm
             THEN /\ outbox' = <<>>
                  /\ UNCHANGED <<saved, awaiting_cleanup_confirm>>
             ELSE /\ saved' = {}
                  /\ awaiting_cleanup_confirm' = FALSE
                  /\ outbox' = <<TextMsg("all_saved_files_deleted")>>
    /\ UNCHANGED <<pc, raw, amount, bilingual_flag, max_len_arg, shuffle, work, output,
                   applied, tr_log, ocrq, saved_dir, imgs, gem>>

\* lines 474-492, confirm_text_handler, called for every text message that is
\* not a command: without a pending confirmation it returns; "yes", stripped
\* and lowered, deletes the saved files (a file whose unlink raises stays);
\* any other text cancels
ConfirmText ==
    /\ pc = "idle"
    /\ cmd' = "text"
    /\ asked' = FALSE
    /\ \E text \in TextMessages :
          /\ last_text' = text
          /\ IF ~awaiting_cleanup_confirm
             THEN /\ outbox' = <<>>
                  /\ UNCHANGED <<saved, awaiting_cleanup_confirm>>
             ELSE IF Lowered(Strip(text)) = YES
             THEN /\ \E failed \in SUBSET saved : saved' = failed
                  /\ awaiting_cleanup_confirm' = FALSE
                  /\ outbox' = <<TextMsg("all_saved_files_deleted")>>
             ELSE /\ awaiting_cleanup_confirm' = FALSE
                  /\ outbox' = <<TextMsg("cleanup_cancelled")>>
                  /\ UNCHANGED saved
    /\ UNCHANGED <<pc, raw, amount, bilingual_flag, max_len_arg, shuffle, work, output,
                   applied, tr_log, ocrq, saved_dir, imgs, gem>>

NextOCR ==
    \/ OcrStart \/ Upload \/ DoneOcrCommand \/ Resume
    \/ Cleanup \/ ConfirmText
    \/ DoneOcrEnter \/ OcrNextItem \/ OcrGemini \/ OcrDeliver

SpecOCR == InitOCR /\ [][NextOCR]_vars

\* a handler that is running goes on running; nothing makes the user send a
\* command
FairSpecOCR ==
    /\ SpecOCR
    /\ WF_vars(DoneOcrEnter) /\ WF_vars(OcrNextItem)
    /\ WF_vars(OcrGemini) /\ WF_vars(OcrDeliver)

-----------------------------------------------------------------------------
(* bot+OCR.py, image_handler.py: the image session *)

MaxImages == 3     \* MAX_IMAGES of the session checked (bot+OCR.py: 10)

\* the paths download_image can return; one more than the list can hold
ImagePaths == 1..(MaxImages + 1)

ImageSet(images) == {images[i] : i \in 1..Len(images)}

\* everything outside the image session
beside_imgs == <<raw, amount, bilingual_flag, max_len_arg, shuffle, work, output,
                 applied, tr_log, ocrq, cleanup, gem>>

InitImages ==
    /\ Idle
    /\ pc = "idle" /\ cmd = "/start"
    /\ raw = <<>> /\ amount = 0 /\ bilingual_flag = FALSE /\ max_len_arg = 0

\* images_process, the handler of /images
ImagesProcess ==
    /\ pc = "idle"
    /\ cmd' = "/images"
    /\ awaiting_images' = TRUE
    /\ collected_images' = <<>>
    /\ img_run' = <<>>
    /\ outbox' = <<TextMsg("send_me_images")>>
    /\ UNCHANGED <<pc, image_files, beside_imgs>>

\* file_handler dispatches a photo to collect_image while awaiting_images is
\* set; download_image returns a fresh path, or nothing when it fails
CollectImage ==
    /\ pc = "idle"
    /\ awaiting_images
    /\ cmd' = "photo"
    /\ img_run' = <<>>
    /\ IF Len(collected_images) >= MaxImages
       THEN /\ outbox' = <<TextMsg("maximum_images_reached")>>
            /\ UNCHANGED <<collected_images, image_files>>
       ELSE \/ \E image_path \in ImagePaths \ image_files :
                 /\ collected_images' = Append(collected_images, image_path)
                 /\ image_files' = image_files \cup {image_path}
                 /\ outbox' = <<TextMsg("image_received")>>
            \/ /\ outbox' = <<TextMsg("error_downloading_image")>>
               /\ UNCHANGED <<collected_images, image_files>>
    /\ UNCHANGED <<pc, awaiting_images, beside_imgs>>

\* done_images, the handler of /done
DoneImages ==
    /\ pc = "idle"
    /\ cmd' = "/done"
    /\ img_run' = <<>>
    /\ IF collected_images = <<>>
       THEN /\ outbox' = <<TextMsg("no_images_collected")>>
            /\ UNCHANGED awaiting_images
       ELSE /\ outbox' = <<TextMsg("collected_images")>>
            /\ awaiting_images' = FALSE
    /\ UNCHANGED <<pc, collected_images, image_files, beside_imgs>>

\* the outcomes of the body of the try: an exception before the payload is
\* built, no result from call_gemini_api, a result, an exception after the call
RunOutcomes == {"raised_before", "no_result", "text", "raised_after"}

\* lines 158-164: the payload of the one request made holds images[0]
PayloadImages(images) == {images[1]}

\* what process_multiple_images does with the list it is called on; the LLM
\* reads the images of the payload and no others
ImageRun(images, outcome) ==
    LET sent == IF outcome = "raised_before" THEN {} ELSE PayloadImages(images)
    IN [images |-> images,
        outcome |-> outcome,
        sent |-> sent,
        in_output |-> IF outcome = "text" THEN sent ELSE {},
        reported |-> IF outcome = "text" THEN Len(images) ELSE 0]

\* mcq_command and content_command with no current_file and no
\* current_image; process_multiple_images with its finally block, in which
\* an unlink that fails is logged and passed over
McqOrContent ==
    /\ pc = "idle"
    /\ \E is_mcq \in BOOLEAN : cmd' = IF is_mcq THEN "/mcq" ELSE "/content"
    /\ IF collected_images = <<>>
       THEN /\ outbox' = <<TextMsg("no_file_found")>>
            /\ img_run' = <<>>
            /\ UNCHANGED <<awaiting_images, collected_images, image_files>>
       ELSE \E outcome \in RunOutcomes, left \in SUBSET ImageSet(collected_images) :
                 /\ img_run' = ImageRun(collected_images, outcome)
                 /\ outbox' = <<TextMsg("processing_images"),
                               IF outcome = "text"
                               THEN DocMsg("from_images", Len(collected_images), <<>>)
                               ELSE TextMsg("failed_images")>>
                 /\ image_files' = (image_files \ ImageSet(collected_images)) \cup left
                 /\ awaiting_images' = FALSE
                 /\ collected_images' = <<>>
    /\ UNCHANGED <<pc, beside_imgs>>

NextImages == ImagesProcess \/ CollectImage \/ DoneImages \/ McqOrContent

SpecImages == InitImages /\ [][NextImages]_vars

-----------------------------------------------------------------------------
(* gemini_client.py: call_gemini_default *)

MaxModels == 3     \* entries of GEMINI_MODELS in the run checked

\* the fallback chain, first entry first
GEMINI_MODELS == [i \in 1..MaxModels |-> <<"model", i>>]

GD_ATTEMPTS == 2   \* range(2) of the inner loop

\* what one requests.post can come to: 404, a timeout, any other failure
\* (raise_for_status, a body that is no such JSON), or a reply with its text
GeminiTexts == {<<>>, <<SP, NL>>, <<"1", ".", SP, "q">>}

GeminiResponses ==
    {[status |-> st, text |-> <<>>] : st \in {"404", "timeout", "error"}}
    \cup {[status |-> "200", text |-> t] : t \in GeminiTexts}

\* line 71: a reply whose text.strip() is not empty is returned
GD_Returns(resp) == resp.status = "200" /\ Strip(resp.text) # <<>>

\* the loop position after a request that did not return, as if a 404 were a
\* failure like any other
GD_Advance_RetryOn404(model, attempt, resp) ==
    IF attempt + 1 < GD_ATTEMPTS
    THEN [model |-> model, attempt |-> attempt + 1]
    ELSE [model |-> model + 1, attempt |-> 0]

\* the loop position after a request that did not return: break on a 404,
\* else the next attempt, and the next model after the last attempt
GD_Advance(model, attempt, resp) ==
    IF resp.status = "404" \/ attempt + 1 >= GD_ATTEMPTS
    THEN [model |-> model + 1, attempt |-> 0]
    ELSE [model |-> model, attempt |-> attempt + 1]

\* everything outside the call
beside_gem == <<raw, amount, bilingual_flag, max_len_arg, shuffle, work, output,
                applied, tr_log, outbox, ocrq, cleanup, imgs>>

InitGemini ==
    /\ Idle
    /\ pc = "idle" /\ cmd = "/start"
    /\ raw = <<>> /\ amount = 0 /\ bilingual_flag = FALSE /\ max_len_arg = 0

\* a caller enters call_gemini_default: the loops stand at the first model
GeminiEnter ==
    /\ pc \in {"idle", "gem_returned"}
    /\ pc' = "gem_loop"
    /\ cmd' = "call_gemini_default"
    /\ g_model' = 1 /\ g_attempt' = 0
    /\ g_log' = <<>> /\ g_result' = <<>>
    /\ UNCHANGED beside_gem

\* one pass of the inner loop: the request and what follows from its outcome
GeminiRequest ==
    /\ pc = "gem_loop"
    /\ \E resp \in GeminiResponses :
          /\ g_log' = Append(g_log, [at |-> g_model, model |-> GEMINI_MODELS[g_model],
                                     attempt |-> g_attempt, resp |-> resp])
          /\ IF GD_Returns(resp)
             THEN /\ g_result' = <<resp.text>>
                  /\ pc' = "gem_returned"
                  /\ UNCHANGED <<g_model, g_attempt>>
             ELSE LET next == GD_Advance(g_model, g_attempt, resp)
                  IN /\ g_model' = next.model
                     /\ g_attempt' = next.attempt
                     /\ g_result' = <<>>
                     /\ pc' = IF next.model > Len(GEMINI_MODELS)
                              THEN "gem_returned" ELSE "gem_loop"
    /\ UNCHANGED <<cmd, beside_gem>>

NextGemini == GeminiEnter \/ GeminiRequest

SpecGemini == InitGemini /\ [][NextGemini]_vars

\* requests.post has timeout=180 and the sleeps are 2 seconds: a pass of the
\* loop that has begun ends; nothing makes a caller call
FairSpecGemini == SpecGemini /\ WF_vars(GeminiRequest)

-----------------------------------------------------------------------------
(* pdf_handler.py: process_pdf *)

\* lines 206-230: the progress message; the PDF goes to Gemini
PdfStart ==
    /\ cmd = "pdf" /\ pc = "pdf_file"
    /\ outbox' = Append(outbox, TextMsg("processing"))
    /\ pc' = "pdf_reply"
    /\ UNCHANGED <<ext, request, tr_log, ocrq, shuffle, work, output, applied>>

\* lines 238-259: no result is reported as a failure; otherwise the two helper
\* passes, the count, the file and the reply
PdfSend ==
    /\ cmd = "pdf" /\ pc = "pdf_reply"
    /\ IF raw = <<>>
       THEN /\ outbox' = Append(outbox, TextMsg("failed_to_process"))
            /\ pc' = "pdf_error"
            /\ UNCHANGED final_text
       ELSE LET cleaned_result ==
                    enforce_correct_answer_format(clean_question_format(raw))
            IN /\ final_text' = cleaned_result
               /\ LET question_count == CountNumberDots(final_text')
                  IN outbox' = Append(outbox, DocMsg("extracted", question_count,
                                                     final_text'))
               /\ pc' = "pdf_sent"
    /\ UNCHANGED <<ext, request, tr_log, ocrq, shuffle, work, out_parts, applied>>

-----------------------------------------------------------------------------
(* Replies wrapped in a code fence *)

\* the reply body in a fence with the language tag; the closing fence may be
\* missing
Wrap(body, tag, closed) ==
    Fence \o tag \o <<NL>> \o body \o (IF closed THEN <<NL>> \o Fence ELSE <<>>)

FenceTags == {<<>>, <<"t", "e", "x", "t">>}

\* the replies that are wrapped: one block, and two blocks
FenceBodies ==
    {UpperReply(<<s>>, 1) : s \in {t \in Shapes : t.mark = 2}}
      \cup {UpperReply(<<s, s>>, 1) : s \in {t \in Shapes : t.mark = 2}}

FencedReplies ==
    {Wrap(body, tag, closed) : body \in FenceBodies, tag \in FenceTags, closed \in BOOLEAN}

\* replies with a decimal number in an option: in the format of the PDF
\* prompt and in the format of the /ai prompts
LowerDecimalReply ==
    Join(<<<<"1", ".", SP>> \o Tag(1),
           <<"a", ")", SP, "3", ".", "5">>,
           <<"b", ")", SP, "o", "2", SP, TICK>>,
           <<"c", ")", SP, "o", "3">>,
           <<"d", ")", SP, "o", "4">>>>, <<NL>>)
UpperDecimalReply ==
    Join(<<<<"1", ".", SP>> \o Tag(1),
           <<"(", "A", ")", SP, "3", ".", "5">>,
           <<"(", "B", ")", SP, "o", "2", SP, TICK>>,
           <<"(", "C", ")", SP, "o", "3">>,
           <<"(", "D", ")", SP, "o", "4">>,
           ExPrefix \o <<SP, "e">>>>, <<NL>>)

\* a reply of the OCR call whose last option is wrapped onto a second line
\* that carries the answer mark
WrappedReplies == {LowerBlock(1, 1, 0) \o <<NL, "x", SP, TICK>>}

\* replies of the OCR call with a line of prose that begins with one of the
\* letters a-d: the last option wrapped onto "and x", the question wrapped
\* onto "but x"
ProseReplies ==
    {LowerBlock(1, 1, 2) \o <<NL, "a", "n", "d", SP, "x">>,
     <<"1", ".", SP, "q", "u", NL, "b", "u", "t", SP, "x", NL>>
        \o Join([i \in 1..4 |-> <<LowerOrder[i], ")", SP, "o", Digit(i)>>], <<NL>>)}

\* replies of the OCR call that hold no question: the empty text (txt or "")
\* and a line of prose
NoQuestionReplies == {<<>>, <<"q", "u">>}

Init ==
    /\ Idle
    /\ \/ /\ cmd = "ai" /\ pc = "ai_reply"
          /\ raw \in AiReplies \cup PreambleReplies
          /\ amount \in 1..MaxAmount
          /\ bilingual_flag \in BOOLEAN
          /\ max_len_arg = 0
       \/ /\ cmd = "ai3" /\ pc = "ai3_reply"
          /\ raw \in AiReplies \cup FencedReplies \cup {UpperDecimalReply, LongMarkedReply}
          /\ amount = 0 /\ bilingual_flag = FALSE /\ max_len_arg = 0
       \/ /\ cmd = "ocr" /\ pc = "ocr_reply"
          /\ raw \in AiReplies \cup LowerTexts \cup FencedReplies \cup NoQuestionReplies
                      \cup WrappedReplies \cup ProseReplies
          /\ amount = 0 /\ bilingual_flag = FALSE /\ max_len_arg = 0
       \/ /\ cmd = "ai1" /\ pc = "ai1_reply"
          /\ raw \in FenceBodies \cup FencedReplies
          /\ amount = 0 /\ bilingual_flag = FALSE /\ max_len_arg = 0
       \/ /\ cmd = "pdf" /\ pc = "pdf_file"
          /\ raw \in LowerTexts \cup {LowerDecimalReply, <<>>}
          /\ amount = 0 /\ bilingual_flag = FALSE /\ max_len_arg = 0
       \/ /\ cmd = "bi" /\ pc = "bi_file"
          /\ raw \in BiFiles \cup PreambleReplies
          /\ amount = 0 /\ bilingual_flag = FALSE /\ max_len_arg = 0
       \/ /\ cmd = "detect_correct_answer" /\ pc = "detect_input"
          /\ raw \in DetectBlocks
          /\ amount = 0 /\ bilingual_flag = FALSE /\ max_len_arg = 0
       \/ /\ cmd \in HelperNames /\ pc = "helper_input"
          /\ raw \in HelperInputs(cmd)
          /\ max_len_arg \in IF cmd = "normalize_option_line"
                         THEN {SAC_OPTION_LIMIT, SAC_OPTION_LIMIT_BILINGUAL} ELSE {0}
          /\ amount = 0 /\ bilingual_flag = FALSE

Next ==
    \/ AiSplit \/ AiParse \/ BSL_Counts \/ BSL_Pick \/ BSL_Return \/ AiBuild \/ AiSend
    \/ Ai3Compact \/ Ai3Fix \/ Ai3Send
    \/ Ai1Strip \/ Ai1Send
    \/ PdfStart \/ PdfSend
    \/ OcrParse \/ OcrSend
    \/ BiSplit \/ BiBlock \/ BiWritePart \/ BiReply
    \/ HelperOnce \/ HelperTwice \/ DetectAnswer

Spec == Init /\ [][Next]_vars

-----------------------------------------------------------------------------
(* Reading a text as questions *)

\* the lines of text grouped by question: a question starts at every line
\* that begins with "<digits>."
QuestionsOf(text) ==
    LET ls == Lines(text)
        starts == SelectSeq([i \in 1..Len(ls) |-> i], LAMBDA i : MatchQNum(Strip(ls[i])))
    IN [k \in 1..Len(starts) |->
          SubSeq(ls, starts[k], IF k < Len(starts) THEN starts[k + 1] - 1 ELSE Len(ls))]

\* the option lines of a question, stripped: "(X) ..." or "x) ..."
OptionLinesOf(q) ==
    SelectSeq([i \in 1..Len(q) |-> Strip(q[i])],
              LAMBDA l : MatchUpperOpt(l) \/ MatchLowerOpt(l))

\* the positions, among the option lines of a question, of the marked ones
MarkedPositions(q) ==
    LET ols == OptionLinesOf(q) IN
    SelectSeq([j \in 1..Len(ols) |-> j], LAMBDA j : Contains(ols[j], TICK))

\* the text of a question line after its number
QuestionTextOf(q) ==
    LET l == Strip(q[1]) IN Strip(Drop(l, DigitRun(l, 1) + 1))

\* the number a question line carries
NumberOf(q) ==
    LET l == Strip(q[1])
        value(c) == CHOOSE d \in 0..9 : Digit(d) = c
    IN IF DigitRun(l, 1) = 1 THEN value(l[1]) ELSE 10 * value(l[1]) + value(l[2])

\* the blocks of the reply that /ai accepts and keeps, in reply order
KeptBlocks ==
    Take(SelectSeq(blocks, LAMBDA b : shorten_and_compact(b, bilingual_flag) # <<>>),
         amount)

-----------------------------------------------------------------------------
(* Properties *)

\* the option letters of a question, lower-cased
OptionLettersOf(q) ==
    LET ols == OptionLinesOf(q) IN
    [j \in 1..Len(ols) |-> ToLower(IF ols[j][1] = "(" THEN ols[j][2] ELSE ols[j][1])]

\* every question of the text has the four options a, b, c, d in this order
WellFormed(text) ==
    LET qs == QuestionsOf(text) IN
    \A k \in 1..Len(qs) : OptionLettersOf(qs[k]) = LowerOrder

\* every question of the text has exactly one marked option line
EveryQuestionMarkedOnce(text) ==
    LET qs == QuestionsOf(text) IN
    \A k \in 1..Len(qs) : Len(MarkedPositions(qs[k])) = 1

\* C8: balanced_shuffled_letters(n) returns exactly n letters, each one of
\* A, B, C, D; the numbers of occurrences of any two letters differ by at
\* most 1; for n = 8 every letter occurs exactly twice.
C8_BalancedPool ==
    pc = "bsl_done" =>
        /\ Len(pool) = n
        /\ \A i \in 1..Len(pool) : pool[i] \in Upper
        /\ \A a, b \in Upper : CountOf(pool, a) - CountOf(pool, b) <= 1
        /\ (n = 8 => \A a \in Upper : CountOf(pool, a) = 2)

C8_Witness ==
    /\ pc = "bsl_done" /\ n = 8
    /\ pool = <<"D", "B", "A", "C", "C", "A", "D", "B">>

\* C1: in /ai, a question whose block in the reply carries the mark on
\* exactly one option line is built with the mark on that same option line
\* and on no other; the shuffled letters decide only for unmarked blocks.
C1_InputMarkKept ==
    pc = "ai_built" =>
        LET kept == KeptBlocks
            built == QuestionsOf(final_text)
        IN \A k \in 1..Len(kept) :
              Len(MarkedPositions(Lines(kept[k]))) = 1 =>
                  MarkedPositions(built[k]) = MarkedPositions(Lines(kept[k]))

\* C2: every question block built by assign_ticks_and_build has exactly one
\* option line that contains the mark.
C2_ExactlyOneMark ==
    pc = "ai_built" => EveryQuestionMarkedOnce(final_text)

\* the text a handler has sent
EmittedText == IF cmd = "bi" THEN Join(out_parts, <<NL, NL>>) ELSE final_text

\* the question texts of a text, in order
QuestionTexts(text) ==
    LET qs == QuestionsOf(text) IN [k \in 1..Len(qs) |-> QuestionTextOf(qs[k])]

\* the numbers of the questions of a text, in order
QuestionNumbers(text) ==
    LET qs == QuestionsOf(text) IN [k \in 1..Len(qs) |-> NumberOf(qs[k])]

\* C3: every question of the emitted text has exactly one marked option, also
\* a question whose answer could not be detected: in the pipeline of
\* ai_handler_3 and in the text formatted by bot.py's renumber_and_format.
C3_FallbackMarksEveryQuestion ==
    /\ (pc = "ai3_sent" /\ WellFormed(raw)) => EveryQuestionMarkedOnce(final_text)
    /\ (pc = "ocr_sent" /\ parsed_qs # <<>> /\ WellFormed(raw))
          => EveryQuestionMarkedOnce(final_text)

\* C4: enforce_correct_answer_format keeps the questions of its input, and
\* for every question with the option lines a) b) c) d) of which exactly one
\* carries the mark, the result has exactly one mark in that question, on the
\* same option.
C4_MarkStaysOnItsOption ==
    (cmd = "enforce_correct_answer_format" /\ pc = "helper_once") =>
        LET before == QuestionsOf(raw)
            after == QuestionsOf(once)
        IN /\ Len(after) = Len(before)
           /\ \A k \in 1..Len(before) :
                 (/\ OptionLettersOf(before[k]) = LowerOrder
                  /\ \A j \in 1..4 : MatchLowerOpt(OptionLinesOf(before[k])[j])
                  /\ Len(MarkedPositions(before[k])) = 1)
                    => MarkedPositions(after[k]) = MarkedPositions(before[k])

\* C5: a block of the input with fewer than 4 option lines does not appear in
\* the text that is sent, neither formatted nor verbatim: its question text
\* occurs nowhere in the output of /ai, /bi or the OCR formatter.
C5_InvalidBlockAbsent ==
    pc \in {"ai_sent", "bi_sent", "ocr_sent"} =>
        LET input == QuestionsOf(raw)
            sent == EmittedText
        IN \A k \in 1..Len(input) :
              Len(OptionLinesOf(input[k])) < 4 => ~HasSub(sent, QuestionTextOf(input[k]))

\* C6: the questions of the text that assign_ticks_and_build returns and of
\* the text that /ai and /bi send carry the numbers 1, 2, ..., k in this
\* order, whatever numbers the input carried.
C6_NumberedFromOne ==
    pc \in {"ai_built", "ai_sent", "bi_sent"} =>
        LET numbers == QuestionNumbers(EmittedText) IN
        numbers = [k \in 1..Len(numbers) |-> k]

\* the blocks of an uploaded file that process_block accepts, whatever the
\* translator returns
NonRejected(bs) == SelectSeq(bs, LAMBDA b : process_block(b, NoTranslation) # <<>>)

\* C7 as stated: the questions of the output are the non-rejected blocks of
\* the input, in input order.
C7_OutputIsNonRejectedBlocks ==
    /\ pc = "ai_sent" =>
          QuestionTexts(final_text)
             = QuestionTexts(Join(SelectSeq(blocks,
                   LAMBDA b : shorten_and_compact(b, bilingual_flag) # <<>>), <<NL>>))
    /\ pc = "bi_sent" =>
          Len(QuestionsOf(EmittedText)) = Len(NonRejected(blocks))

\* C7: no question is reordered or duplicated.  The questions of the output
\* of /ai are the first 'amount' accepted blocks of the reply in reply order;
\* those of /bi are all blocks of the file that begin with a question number,
\* in file order across the parts, a translated question beginning with the
\* text it had in the file (text before the first number is no question); those
\* of the OCR formatter are all questions of the reply in reply order.
C7_OrderKept ==
    /\ pc = "ai_sent" =>
          LET kept == KeptBlocks IN
          QuestionTexts(final_text) = [k \in 1..Len(kept) |-> QuestionTextOf(Lines(kept[k]))]
    /\ pc = "bi_sent" =>
          LET sent == QuestionTexts(EmittedText)
              numbered == SelectSeq(blocks, LAMBDA b : MatchQNum(Strip(Lines(b)[1])))
          IN /\ Len(sent) = Len(numbered)
             /\ \A k \in 1..Len(numbered) :
                   StartsWith(sent[k], QuestionTextOf(Lines(numbered[k])))
    /\ (pc = "ocr_sent" /\ parsed_qs # <<>>) =>
          QuestionTexts(final_text) = QuestionTexts(raw)

\* /ai has sent the first and the third of the three blocks of a reply whose
\* second block it rejected
C7_Witness ==
    /\ pc = "ai_sent" /\ Len(blocks) = 3 /\ amount = 2
    /\ QuestionTexts(final_text) = <<Tag(1), Tag(3)>>

\* C9: each length pass applied to its own result returns it unchanged.
C9_PassesIdempotent ==
    (/\ cmd \in {"optimize_for_poll", "enforce_telegram_limits", "normalize_option_line"}
     /\ pc = "helper_twice") => twice = once

\* the explanation of an "Ex:" line: what follows "Ex:", stripped
ExplanationText(line) == Strip(Drop(Strip(line), 3))

\* C10: for every line of the input that starts with "Ex:", the explanation
\* that optimize_for_poll and enforce_telegram_limits emit for it has at most
\* 200 characters and is not longer than the explanation of the input.
C10_ExplanationBounded ==
    (cmd \in {"optimize_for_poll", "enforce_telegram_limits"} /\ pc = "helper_once") =>
        /\ Len(Lines(once)) = Len(Lines(raw))
        /\ \A i \in 1..Len(Lines(raw)) :
              StartsWith(Lines(raw)[i], ExPrefix) =>
                  /\ Len(ExplanationText(Lines(once)[i])) <= 200
                  /\ Len(ExplanationText(Lines(once)[i]))
                        <= Len(ExplanationText(Lines(raw)[i]))

\* C11: no option line of the text enforce_telegram_limits returns is longer
\* than the 100 characters the function tests for, whatever the length of
\* the option line it was given.
C11_OptionLineBounded ==
    (cmd = "enforce_telegram_limits" /\ pc = "helper_once") =>
        LET ls == Lines(once) IN
        \A i \in 1..Len(ls) : MatchLowerOpt(ls[i]) => Len(ls[i]) <= ETL_OPTION_LIMIT

\* what the handler named c writes to its file for the reply r
Processed(c, r) ==
    CASE c = "ai3" -> FinalCleanups(AI3_FixBlocks(shorten_mcqs(AI3_StripFence(r))))
      [] c = "ocr" -> (LET qs == parse_mcq_text(Strip(r)) IN
                       IF qs = <<>> THEN Strip(r) ELSE renumber_and_format(qs))
      [] c = "ai1" -> (IF Len(AH1_StripFence(r)) < AH1_MIN_LEN THEN <<>>
                       ELSE clean_question_format(AH1_StripFence(r)))

\* C12: a reply wrapped in a code fence, with or without a language tag and
\* with or without its closing fence, gives the same questions as the reply
\* without the fence; the text inside the fence is not discarded.
C12_FenceIsTransparent ==
    (cmd \in {"ai3", "ocr", "ai1"} /\ pc \in {"ai3_sent", "ocr_sent", "ai1_sent", "ai1_error"}) =>
        \A body \in FenceBodies : \A tag \in FenceTags : \A closed \in BOOLEAN :
            raw = Wrap(body, tag, closed) =>
                LET plain == QuestionsOf(Processed(cmd, body)) IN
                /\ QuestionsOf(final_text) = plain
                /\ (cmd # "ai1" => plain # <<>>)

\* the field the bilingual mode is to compose from a source text and what the
\* translation call returned: the source alone when the call failed or
\* returned nothing, "<source> / <translated>" otherwise
Composed(source, translated) ==
    IF translated = <<>> THEN source ELSE source \o Slash \o translated

\* C13: in bilingual mode the question, each option and the explanation of a
\* block are the source text alone when the translation call failed or
\* returned nothing, and "<source> / <translated>" when it succeeded.
C13_FailedTranslationKeepsSource ==
    cmd = "bi" =>
        \A i \in 1..Len(converted_blocks) :
            blocks[i] = GujaratiBlock(i, i) =>
                LET ls == Lines(converted_blocks[i])
                    tr == tr_log[i]
                IN /\ Len(ls) = 6
                   /\ ls[1] = Numeral(i) \o <<".", SP>> \o Composed(<<GU>> \o Tag(i), tr.q)
                   /\ \A k \in 1..4 :
                         ls[k + 1] = <<"(", LetterOrder[k], ")", SP>>
                                        \o Composed(<<GU, "o", Digit(k)>>, tr.o[k])
                   /\ ls[6] = Composed(ExPrefix \o <<SP, GU, "e">>, tr.e)

\* the user has been sent an error text and no document
OnlyAnError ==
    /\ outbox # <<>>
    /\ \A k \in 1..Len(outbox) : outbox[k].kind = "text"

\* C14: when no valid question results from the reply or the uploaded file,
\* the user gets an error message and no document, also when the splitter
\* returned blocks and the parser rejected every one of them.
C14_NoQuestionNoDocument ==
    /\ (cmd = "ai" /\ pc \in {"ai_error", "ai_sent"}
          /\ Accepted(blocks, bilingual_flag) = <<>>) => OnlyAnError
    /\ (cmd = "bi" /\ pc \in {"bi_error", "bi_sent"}
          /\ \A i \in 1..Len(blocks) : process_block(blocks[i], tr_log[i]) = <<>>)
             => OnlyAnError
    /\ (cmd = "ocr" /\ pc = "ocr_sent" /\ parsed_qs = <<>>) => OnlyAnError

\* the blocks of the batch the parser of the running handler accepts
ValidBlock(k) ==
    IF cmd = "ai" THEN shorten_and_compact(blocks[k], bilingual_flag) # <<>>
    ELSE process_block(blocks[k], NoTranslation) # <<>>

\* the batch holds exactly one block its parser rejects
OneMalformed == Cardinality({k \in 1..Len(blocks) : ~ValidBlock(k)}) = 1

\* the question of block k stands in the text sent
QuestionEmitted(k) ==
    LET sent == QuestionTexts(EmittedText) IN
    \E j \in 1..Len(sent) : StartsWith(sent[j], QuestionTextOf(Lines(blocks[k])))

\* C15 as stated: of a batch of N blocks with one malformed block, the output
\* holds the questions of the N-1 other blocks.
C15_OtherBlocksEmitted ==
    (pc \in {"ai_sent", "bi_sent"} /\ OneMalformed) =>
        \A k \in 1..Len(blocks) : ValidBlock(k) => QuestionEmitted(k)

\* C15: a rejected block, or one whose processing raised, does not hold back
\* the others.  /bi emits the question of every accepted block; /ai emits the
\* question of every accepted block that is among the first amount accepted
\* blocks of the reply.
C15_MalformedBlockSkipped ==
    pc \in {"ai_sent", "bi_sent"} =>
        \A k \in 1..Len(blocks) :
            (/\ ValidBlock(k)
             /\ cmd = "ai" => Cardinality({j \in 1..k : ValidBlock(j)}) <= amount)
                => QuestionEmitted(k)

C15_Witness ==
    /\ pc \in {"ai_sent", "bi_sent"}
    /\ Len(blocks) = 3 /\ OneMalformed /\ ~ValidBlock(2)
    /\ QuestionEmitted(1) /\ QuestionEmitted(3)

\* C16: the assembler's output fed again through the splitter and the parser
\* gives the same number of valid questions: parse_mcq_text of the text
\* renumber_and_format wrote has as many questions as were formatted, each
\* with the same answer letter, and split_mcqs with shorten_and_compact
\* accept as many blocks of the text assign_ticks_and_build wrote as structs
\* were assembled.
C16_RoundTrip ==
    /\ (cmd = "ocr" /\ pc = "ocr_sent" /\ parsed_qs # <<>>) =>
          LET again == parse_mcq_text(final_text) IN
          /\ Len(again) = Len(parsed_qs)
          /\ \A k \in 1..Len(again) : again[k].answer = parsed_qs[k].answer
    /\ (cmd = "ai" /\ pc = "ai_built") =>
          Len(Accepted(split_mcqs(final_text), bilingual_flag)) = Len(mcq_structs)

\* a document has been handed to Telegram
DocumentSent == \E k \in 1..Len(outbox) : outbox[k].kind = "document"

\* C17: /bi sends no document before every block of the file is processed and
\* every part file is written; when the handler stops before that, nothing
\* is sent.
C17_NothingSentBeforeAllWritten ==
    cmd = "bi" =>
        /\ DocumentSent =>
              /\ Len(converted_blocks) = Len(blocks)
              /\ Len(out_parts) = Len(chunk_list(converted_blocks, BI_CHUNK))
        /\ pc = "bi_aborted" => outbox = <<>>

C17_Witness ==
    /\ cmd = "bi" /\ pc = "bi_written"
    /\ Len(blocks) = BI_CHUNK + 1 /\ Len(out_parts) = 2
    /\ Len(outbox) = 1 /\ outbox[1].kind = "document"

\* C18: the count a handler reports with its document is the number of
\* questions in the file it sends, and the count /ai reports is at most the
\* requested amount.
C18_ReportedCountIsFileCount ==
    cmd \in {"ai", "ai3", "pdf"} =>
        \A k \in 1..Len(outbox) :
            outbox[k].kind = "document" =>
                /\ outbox[k].count = Len(QuestionsOf(outbox[k].body))
                /\ cmd = "ai" => outbox[k].count <= amount

\* C19: in the OCR queue the input file of an item is deleted only after the
\* MCQ document of that item has been sent, an item is done only after its
\* document has been sent, and an item that is done is not processed again.
C19_DeletedAndDoneOnlyAfterSend ==
    /\ \A i \in 1..Len(queue) : queue[i].path \notin disk => i \in sent_items
    /\ \A i \in 1..Len(queue) : queue[i].status = "done" => i \in sent_items
    /\ pc \in {"ocr_item", "ocr_send"} => item_idx \notin sent_items

\* an item stays pending or processing until it is done, an error, or a
\* Gemini failure is reported
Settled(i) ==
    \/ i <= Len(queue) /\ queue[i].status \in {"done", "error"}
    \/ \E k \in 1..Len(outbox) : outbox[k].what = "gemini_failed"

\* C20: when the saved queue holds a pending or processing item and
\* /resumeocr is invoked, the item is eventually processed: it becomes done
\* or an error, or a Gemini failure is reported.
C20_ResumeProcessesPending ==
    \A i \in 1..MaxQueue :
        (/\ cmd = "/resumeocr" /\ pc = "doneocr_enter"
         /\ i <= Len(queue) /\ queue[i].status \in {"pending", "processing"})
            ~> Settled(i)

-----------------------------------------------------------------------------
(* Saved outputs and /cleanup *)

\* C21: saved output files are deleted only by a confirmed cleanup: a step
\* removes a file from the saved directory only when it handles a text message
\* that is "yes" once stripped and lowered, while the confirmation asked for
\* by an earlier /cleanup is still pending; any other text message leaves the
\* saved files alone and ends the pending confirmation
C21_DeletedOnlyByConfirmedCleanup ==
    [][/\ ~(saved \subseteq saved') =>
              /\ cmd' = "text"
              /\ asked /\ awaiting_cleanup_confirm
              /\ Lowered(Strip(last_text')) = YES
       /\ (cmd' = "text" /\ Lowered(Strip(last_text')) # YES) =>
              /\ saved' = saved
              /\ ~awaiting_cleanup_confirm']_vars

\* a "yes" in capitals with blanks around it has deleted the saved outputs of
\* a session
C21_Witness ==
    /\ cmd = "text" /\ last_text = <<SP, "Y", "E", "S", NL>>
    /\ outbox = <<TextMsg("all_saved_files_deleted")>>
    /\ sent_items # {} /\ saved = {}

-----------------------------------------------------------------------------
(* Option lines and continuation lines of parse_mcq_text *)

\* a line with the prefix "(letter)" or "letter)", letter in a-d
PrefixedOption(ln) ==
    /\ OptionLetterPos(ln) # 0
    /\ Len(ln) > OptionLetterPos(ln)
    /\ ln[OptionLetterPos(ln) + 1] = ")"
    /\ (OptionLetterPos(ln) = 2 \/ ln[1] \in AnyLetter)

\* one line read as stated: a prefixed option line and an "Ex:" line as
\* parse_mcq_text reads them, every other line a continuation
ContinuationUnlessPrefixed(q, ln) ==
    IF PrefixedOption(ln) \/ (OptionLetterPos(ln) = 0 /\ IsExLine(ln)) THEN PMT_Line(q, ln)
    ELSE IF q.options # <<>>
    THEN [q EXCEPT !.options[Len(q.options)] =
                       <<q.options[Len(q.options)][1],
                         q.options[Len(q.options)][2] \o <<SP>> \o ln>>]
    ELSE [q EXCEPT !.question = @ \o <<SP>> \o ln]

RECURSIVE ReadAsStated(_, _, _)
ReadAsStated(ls, qs, cur) ==
    IF ls = <<>> THEN qs \o cur
    ELSE LET ln == Strip(ls[1]) IN
         IF MatchBotQNum(ln)
         THEN ReadAsStated(Tail(ls), qs \o cur,
                           <<[question |-> Strip(BotQNumRest(ln)), options |-> <<>>,
                              answer |-> <<>>, explanation |-> <<>>]>>)
         ELSE IF cur = <<>> \/ ln = <<>> THEN ReadAsStated(Tail(ls), qs, cur)
         ELSE ReadAsStated(Tail(ls), qs, <<ContinuationUnlessPrefixed(cur[1], ln)>>)

\* C22: parse_mcq_text takes a line for an option only when it has the prefix
\* "(letter)" or "letter)" with letter in a-d; every other non-empty line that
\* is no question line and no "Ex:" line is appended to the question or to the
\* most recent option and creates or overwrites no option
C22_OnlyPrefixedLinesAreOptions ==
    (cmd = "ocr" /\ pc = "ocr_parsed") =>
        LET stripped == Strip(strip_code_fence(raw))
            split == SplitLines(stripped)
        IN parsed_qs = ReadAsStated([i \in 1..Len(split) |-> RStrip(split[i])], <<>>, <<>>)

-----------------------------------------------------------------------------
(* Question lines over the budget of optimize_for_poll *)

\* the text of a question line after its "N." number, stripped
TextAfterNumber(line) == Strip(Drop(line, DigitRun(line, 1) + 1))

\* C23: for a numbered question line longer than the budget, the line that
\* optimize_for_poll emits fits the budget and keeps the "N." number of the
\* line followed by non-empty question text taken from the start of the
\* question
C23_LongQuestionKeepsText ==
    (cmd = "optimize_for_poll" /\ pc = "helper_once") =>
        /\ Len(Lines(once)) = Len(Lines(raw))
        /\ \A i \in 1..Len(Lines(raw)) :
              LET line == Lines(raw)[i]
                  emitted == Lines(once)[i]
              IN (MatchQNum(line) /\ Len(line) > OFP_QUESTION_LIMIT) =>
                     /\ Len(emitted) <= OFP_QUESTION_LIMIT
                     /\ MatchQNum(emitted)
                     /\ DigitRun(emitted, 1) = DigitRun(line, 1)
                     /\ TextAfterNumber(emitted) # <<>>

-----------------------------------------------------------------------------
(* The answer detect_correct_answer returns *)

\* the options of a block as pairs <<letter, text>>
OptionsOfBlock(block) == DictOf(StripSecond(FindOptions(block, 1)), <<>>)

\* the number of words the text of an option shares with the explanation
Overlap(text, block) ==
    Cardinality(WordSet(Lowered(text)) \cap WordSet(ExplanationOf(block)))

\* the letter of the option whose overlap is not zero and strictly larger
\* than the overlap of every other option; <<>> when there is no such option
StrictlyBest(block) ==
    LET opts == OptionsOfBlock(block)
        best == {i \in 1..Len(opts) :
                    /\ Overlap(opts[i][2], block) > 0
                    /\ \A j \in 1..Len(opts) :
                          j # i => Overlap(opts[j][2], block) < Overlap(opts[i][2], block)}
    IN IF best = {} THEN <<>> ELSE <<opts[CHOOSE i \in best : TRUE][1]>>

\* C24: for a block without a mark and without a declaration,
\* detect_correct_answer returns the option whose words share strictly the
\* most words, and at least one, with the explanation; it returns no letter
\* when options tie for the largest overlap or when every overlap is zero
C24_StrictlyLargestOverlap ==
    (cmd = "detect_correct_answer" /\ pc = "detect_done"
        /\ TickedLetter(raw) = <<>> /\ DeclaredLetter(raw) = <<>>
        /\ raw \in {DetectBlock(0, ex) : ex \in PlainExplanations}) =>
        once = StrictlyBest(raw)

\* the phrases "correct answer is" and "correct:" in lower case
DeclaringPhrases ==
    {<<"c", "o", "r", "r", "e", "c", "t", SP, "a", "n", "s", "w", "e", "r", SP, "i", "s">>,
     <<"c", "o", "r", "r", "e", "c", "t", ":">>}

\* the letters X that the block declares with "correct answer is X" or
\* "correct: X", the phrase in any letter case
PhraseLetters(block) ==
    {block[j] : j \in {k \in 1..Len(block) :
                         /\ block[k] \in Upper
                         /\ \E ph \in DeclaringPhrases :
                               /\ k > Len(ph) + 1
                               /\ block[k - 1] = SP
                               /\ WordAt(Lowered(block), k - 1 - Len(ph), ph)}}

\* the letters of the option lines that carry the mark
MarkedLetters(block) ==
    {Lines(block)[i][2] : i \in {k \in 1..Len(Lines(block)) :
                                    /\ MatchUpperOpt(Lines(block)[k])
                                    /\ Contains(Lines(block)[k], TICK)}}

\* C25: when no option line carries the mark and the block says "correct
\* answer is X" or "correct: X" in any letter case, detect_correct_answer
\* returns X whatever the explanation shares with the options; when an option
\* line carries the mark the marked letter is returned whatever the phrase says
C25_DeclarationThenMark ==
    (cmd = "detect_correct_answer" /\ pc = "detect_done") =>
        /\ (MarkedLetters(raw) = {} /\ PhraseLetters(raw) # {}) =>
               (once # <<>> /\ once[1] \in PhraseLetters(raw))
        /\ MarkedLetters(raw) # {} =>
               (once # <<>> /\ once[1] \in MarkedLetters(raw))

-----------------------------------------------------------------------------
(* What the splitters make of the lines before the first question *)

\* the lines of text that precede its first question-number line, stripped,
\* the blank ones left out
PreambleLines(text) ==
    LET ls == Lines(text)
        firstq == SelectSeq([i \in 1..Len(ls) |-> i], LAMBDA i : MatchQNumSp(ls[i]))
        upto == IF firstq = <<>> THEN Len(ls) ELSE firstq[1] - 1
    IN {Strip(ls[i]) : i \in {k \in 1..upto : Strip(ls[k]) # <<>>}}

\* the lines, stripped, of the texts a handler has written for the user
OutputLines ==
    LET texts == IF cmd = "ai" /\ pc = "ai_sent" THEN <<final_text>>
                 ELSE IF cmd = "bi" THEN out_parts ELSE <<>>
    IN UNION {{Strip(Lines(texts[k])[i]) : i \in 1..Len(Lines(texts[k]))} :
                 k \in 1..Len(texts)}

\* C26: the lines before the first question-number line of the input form no
\* block of split_mcqs and split_mcq_blocks (every block starts with a
\* question-number line) and are no lines of the output text, and no block is
\* empty or blank
C26_PreambleDiscarded ==
    (cmd \in {"ai", "bi"} /\ pc \notin {"ai_reply", "bi_file"}) =>
        /\ \A i \in 1..Len(blocks) : Strip(blocks[i]) # <<>>
        /\ \A i \in 1..Len(blocks) : MatchQNumSp(blocks[i])
        /\ PreambleLines(raw) \cap OutputLines = {}

-----------------------------------------------------------------------------
(* The options of an accepted question *)

\* the option lines "(X) ..." of a struct carry the letters A, B, C and D,
\* each once
FourUpperOptions(options) ==
    /\ Len(options) = 4
    /\ \A i \in 1..Len(options) : MatchUpperOpt(options[i])
    /\ {options[i][2] : i \in 1..Len(options)} = Upper

\* the options dict of parse_mcq_text has the keys a, b, c and d
FourLowerOptions(options) ==
    /\ Len(options) = 4
    /\ {options[i][1] : i \in 1..Len(options)} = Lower

\* C27: every question a parser accepts has exactly four options with the
\* letters A, B, C and D, each once: the structs shorten_and_compact returns
\* to /ai, the structs process_block returns to /bi and the questions
\* parse_mcq_text returns; a block with a repeated letter, a missing letter or
\* a fifth option line is not accepted
C27_AcceptedHaveFourOptions ==
    /\ cmd = "ai" =>
          \A i \in 1..Len(mcq_structs) : FourUpperOptions(mcq_structs[i].options)
    /\ (cmd = "bi" /\ pc = "bi_blocks") =>
          \A i \in 1..Len(blocks) :
             LET struct == process_block(blocks[i], NoTranslation) IN
             struct # <<>> => FourUpperOptions(struct[1].options)
    /\ (cmd = "ocr" /\ pc = "ocr_parsed") =>
          \A i \in 1..Len(parsed_qs) : FourLowerOptions(parsed_qs[i].options)

-----------------------------------------------------------------------------
(* The answer mark under the length passes *)

\* the number of option lines of text that carry the mark
MarkedOptionLines(text) ==
    Cardinality({i \in 1..Len(Lines(text)) :
                    LET l == Strip(Lines(text)[i]) IN
                    (MatchUpperOpt(l) \/ MatchLowerOpt(l)) /\ Contains(l, TICK)})

\* C28: the length passes do not remove the answer mark: for an option line
\* that ends with the mark, the line optimize_for_poll and
\* enforce_telegram_limits emit for it contains the mark, and the text
\* shorten_mcqs returns has as many marked option lines as the text it was
\* given
C28_MarkSurvivesLengthPasses ==
    /\ (cmd \in {"optimize_for_poll", "enforce_telegram_limits"} /\ pc = "helper_once") =>
          /\ Len(Lines(once)) = Len(Lines(raw))
          /\ \A i \in 1..Len(Lines(raw)) :
                LET line == Strip(Lines(raw)[i]) IN
                (MatchLowerOpt(line) /\ line[Len(line)] = TICK) =>
                    Contains(Lines(once)[i], TICK)
    /\ (cmd = "ai3" /\ pc = "ai3_compact") =>
          MarkedOptionLines(final_text) = MarkedOptionLines(AI3_StripFence(raw))

\* C29: when /mcq or /content runs over k collected images, every one of the
\* k images is sent to the LLM and is in the output that is reported as
\* coming from k images; afterwards, on success and on failure, the collected
\* list is empty and awaiting_images is false
ImagesOfRun == ImageSet(img_run.images)

AllImagesSent ==
    /\ img_run.outcome \in {"no_result", "text", "raised_after"}
          => img_run.sent = ImagesOfRun
    /\ img_run.outcome = "text"
          => /\ img_run.in_output = ImagesOfRun
             /\ img_run.reported = Len(img_run.images)

C29_AllImagesProcessedThenCleared ==
    img_run # <<>> =>
        /\ AllImagesSent
        /\ collected_images = <<>>
        /\ ~awaiting_images

\* C30: call_gemini_default tries the models in GEMINI_MODELS order, makes at
\* most 2 requests per model, moves to the next model at once on a 404,
\* returns the first non-blank text received, returns None only after every
\* model has been exhausted, and for every pattern of timeouts, errors and
\* blank replies ends after at most 2 * |GEMINI_MODELS| requests
RequestsTo(m) == {j \in 1..Len(g_log) : g_log[j].at = m}

ModelExhausted(m) ==
    \/ Cardinality(RequestsTo(m)) = 2
    \/ \E j \in RequestsTo(m) : g_log[j].resp.status = "404"

InModelsOrder ==
    /\ g_log # <<>> => g_log[1].at = 1
    /\ \A j \in 1..Len(g_log) :
          /\ g_log[j].at \in 1..Len(GEMINI_MODELS)
          /\ g_log[j].model = GEMINI_MODELS[g_log[j].at]
          /\ j < Len(g_log) =>
                /\ g_log[j + 1].at \in {g_log[j].at, g_log[j].at + 1}
                /\ g_log[j + 1].at = g_log[j].at + 1 => ModelExhausted(g_log[j].at)
                /\ g_log[j].resp.status = "404" => g_log[j + 1].at = g_log[j].at + 1

FirstTextReturned ==
    /\ \A j \in 1..Len(g_log) :
          Strip(g_log[j].resp.text) # <<>>
             => j = Len(g_log) /\ pc = "gem_returned" /\ g_result = <<g_log[j].resp.text>>
    /\ g_result # <<>> => g_log # <<>> /\ g_result = <<g_log[Len(g_log)].resp.text>>

NoneOnlyWhenExhausted ==
    (pc = "gem_returned" /\ g_result = <<>>)
       => \A m \in 1..Len(GEMINI_MODELS) : ModelExhausted(m)

C30_FallbackChainBounded ==
    /\ [](/\ InModelsOrder
          /\ \A m \in 1..Len(GEMINI_MODELS) : Cardinality(RequestsTo(m)) <= 2
          /\ FirstTextReturned
          /\ NoneOnlyWhenExhausted
          /\ Len(g_log) <= 2 * Len(GEMINI_MODELS))
    /\ (pc = "gem_loop" ~> pc = "gem_returned")

\* the text comes from the third model after a 404, a timeout, a blank reply
\* and an error
C30_Witness ==
    /\ pc = "gem_returned" /\ g_result # <<>>
    /\ Len(g_log) = 5
    /\ g_log[1].resp.status = "404"
    /\ g_log[2].resp.status = "timeout"
    /\ g_log[3].resp.status = "200"
    /\ g_log[4].resp.status = "error"
    /\ g_log[5].at = 3

=============================================================================
